---- MODULE Spec2Model ----
(***************************************************************************)
(* Dimensional-analysis engine (include/dimensions.h, include/units.h).    *)
(*                                                                         *)
(* A Quantity<Dimensions<M,L,T,I,K,N,J>> is modelled as a record           *)
(* [value, dim]: value is an IEEE-754 binary floating-point number of      *)
(* reduced width (MantBits significand bits, MaxBinade+1 binades, smallest *)
(* subnormal 2^-FracBits), dim is the record of the seven template         *)
(* arguments.  Operations the compiler rejects (no matching operator, a    *)
(* failed static_assert) are results whose status names the rejection.     *)
(*                                                                         *)
(* Three kinds of client program are modelled (prog): "expr" evaluates an  *)
(* expression over two Quantity operands a and b; "units" evaluates a      *)
(* formula over the user-defined literals and the physical constants of    *)
(* units.h, on doubles of UMantBits significand bits; "ecs" fills the      *)
(* ComponentPools of a Registry and runs a view.                           *)
(***************************************************************************)
EXTENDS Integers, FiniteSets, Sequences, TLC

VARIABLES a, b, r, r2, os, prog, constants, ldbits, lit1, lit2, lit3, val,
          counter, ids, pools, assigns, calls, viewed, ub

\* an expression over the operands a and b, and the stream written to
exprVars == <<a, b, r, r2, os>>

\* a formula over unit literals, on a build whose long double has ldbits bits
unitVars == <<ldbits, lit1, lit2, lit3, val>>

\* TypeRegistry::counter and the static id of get_id<T>, the pools of one
\* Registry, the arguments of the assign calls made on the pool of each type
\* (assigns), the calls of func made by the view that ran (viewed), and
\* whether the program has executed undefined behaviour
ecsVars == <<counter, ids, pools, assigns, calls, viewed, ub>>

\* what an expression over a and b leaves alone: the kind of client program
\* that runs, the objects of namespace constants, the unit literals, the
\* entity component system
outside == <<prog, constants, unitVars, ecsVars>>

vars == <<exprVars, outside>>

(***************************************************************************)
(* Bounds of the model.                                                    *)
(***************************************************************************)
MantBits == 3
MaxBinade == 2
FracBits == 3
MaxExp == 2
MaxPow == 3

(***************************************************************************)
(* double: sign bit sg, magnitude n counted in units of 2^-FracBits.       *)
(***************************************************************************)
Pow2(k) == 2 ^ k

MaxFin == (Pow2(MantBits) - 1) * Pow2(MaxBinade)

NaN == [k |-> "nan", sg |-> 0, n |-> 0]

Inf(s) == [k |-> "inf", sg |-> s, n |-> 0]

Fin(s, n) == [k |-> "fin", sg |-> s, n |-> n]

NoValue == [k |-> "none", sg |-> 0, n |-> 0]

PosFin == {m * Pow2(j) : m \in 1..(Pow2(MantBits) - 1), j \in 0..MaxBinade}

Doubles ==
  {Fin(s, n) : s \in {0, 1}, n \in PosFin \cup {0}} \cup {Inf(0), Inf(1), NaN}

IsNaN(x) == x.k = "nan"

IsInf(x) == x.k = "inf"

IsZero(x) == x.k = "fin" /\ x.n = 0

IsFinite(x) == x.k = "fin"

Xor(s, t) == IF s = t THEN 0 ELSE 1

One == Fin(0, Pow2(FracBits))

\* quantum (spacing of doubles) at a magnitude whose integer part is fl units
Quantum(fl) ==
  Pow2(CHOOSE j \in 0..MaxBinade :
         /\ fl < Pow2(MantBits + j)
         /\ (j = 0 \/ fl >= Pow2(MantBits + j - 1)))

\* round-to-nearest, ties-to-even, of the positive rational num/den (in units)
Round(s, num, den) ==
  LET fl == num \div den
  IN IF fl >= Pow2(MantBits + MaxBinade) THEN Inf(s)
     ELSE LET q == Quantum(fl)
              m == num \div (den * q)
              rem2 == 2 * (num - m * den * q)
              up == rem2 > den * q \/ (rem2 = den * q /\ m % 2 = 1)
              n == (IF up THEN m + 1 ELSE m) * q
          IN IF n > MaxFin THEN Inf(s) ELSE Fin(s, n)

\* the two doubles that bracket num/den (one double when num/den is a double)
Faithful(s, num, den) ==
  LET fl == num \div den
  IN IF fl >= Pow2(MantBits + MaxBinade) THEN {Inf(s)}
     ELSE LET q == Quantum(fl)
              m == num \div (den * q)
              exact == num = m * den * q
              lo == Fin(s, m * q)
              hi == IF (m + 1) * q > MaxFin THEN Inf(s) ELSE Fin(s, (m + 1) * q)
          IN IF exact THEN {lo} ELSE {lo, hi}

FNeg(x) == IF IsNaN(x) THEN NaN ELSE [x EXCEPT !.sg = 1 - x.sg]

FAbs(x) == IF IsNaN(x) THEN NaN ELSE [x EXCEPT !.sg = 0]

FMul(x, y) ==
  IF IsNaN(x) \/ IsNaN(y) THEN NaN
  ELSE IF IsInf(x) \/ IsInf(y)
       THEN IF IsZero(x) \/ IsZero(y) THEN NaN ELSE Inf(Xor(x.sg, y.sg))
       ELSE Round(Xor(x.sg, y.sg), x.n * y.n, Pow2(FracBits))

FDiv(x, y) ==
  IF IsNaN(x) \/ IsNaN(y) THEN NaN
  ELSE IF IsInf(x) THEN (IF IsInf(y) THEN NaN ELSE Inf(Xor(x.sg, y.sg)))
  ELSE IF IsInf(y) THEN Fin(Xor(x.sg, y.sg), 0)
  ELSE IF IsZero(y) THEN (IF IsZero(x) THEN NaN ELSE Inf(Xor(x.sg, y.sg)))
  ELSE Round(Xor(x.sg, y.sg), x.n * Pow2(FracBits), y.n)

Signed(x) == IF x.sg = 1 THEN 0 - x.n ELSE x.n

FAdd(x, y) ==
  IF IsNaN(x) \/ IsNaN(y) THEN NaN
  ELSE IF IsInf(x) THEN (IF IsInf(y) /\ y.sg # x.sg THEN NaN ELSE x)
  ELSE IF IsInf(y) THEN y
  ELSE LET sum == Signed(x) + Signed(y)
       IN IF sum = 0 THEN Fin(IF x.sg = 1 /\ y.sg = 1 THEN 1 ELSE 0, 0)
          ELSE IF sum < 0 THEN Round(1, 0 - sum, 1)
          ELSE Round(0, sum, 1)

FSub(x, y) == FAdd(x, FNeg(y))

ISqrt(N) == CHOOSE s \in 0..N : s * s <= N /\ (s + 1) * (s + 1) > N

\* std::sqrt: correctly rounded square root
FSqrt(x) ==
  IF IsNaN(x) THEN NaN
  ELSE IF IsZero(x) THEN x
  ELSE IF x.sg = 1 THEN NaN
  ELSE IF IsInf(x) THEN x
  ELSE LET N == x.n * Pow2(FracBits)
           fl == ISqrt(N)
           q == Quantum(fl)
           m == fl \div q
           mid2 == (2 * m + 1) * q
           up == 4 * N > mid2 * mid2 \/ (4 * N = mid2 * mid2 /\ m % 2 = 1)
       IN Fin(0, (IF up THEN m + 1 ELSE m) * q)

IsOdd(N) == N % 2 = 1

\* std::pow that tests for a zero base before it tests for a zero exponent
std_pow_ZeroBaseFirst(x, N) ==
  LET s == IF x.sg = 1 /\ IsOdd(N) THEN 1 ELSE 0
      k == IF N < 0 THEN 0 - N ELSE N
  IN IF IsNaN(x) THEN {NaN}
     ELSE IF IsZero(x) THEN (IF N < 0 THEN {Inf(s)} ELSE {Fin(s, 0)})
     ELSE IF N = 0 THEN {One}
     ELSE IF IsInf(x) THEN (IF N < 0 THEN {Fin(s, 0)} ELSE {Inf(s)})
     ELSE IF N > 0 THEN Faithful(s, x.n ^ k, Pow2(FracBits * (k - 1)))
     ELSE Faithful(s, Pow2(FracBits * (k + 1)), x.n ^ k)

\* std::pow that raises to |N|
std_pow_AbsExponent(x, N) ==
  LET s == IF x.sg = 1 /\ IsOdd(N) THEN 1 ELSE 0
      k == IF N < 0 THEN 0 - N ELSE N
  IN IF N = 0 THEN {One}
     ELSE IF IsNaN(x) THEN {NaN}
     ELSE IF IsZero(x) THEN {Fin(s, 0)}
     ELSE IF IsInf(x) THEN {Inf(s)}
     ELSE Faithful(s, x.n ^ k, Pow2(FracBits * (k - 1)))

\* std::pow that gives the result the sign of the base for every exponent
std_pow_KeepsSign(x, N) ==
  LET s == x.sg
      k == IF N < 0 THEN 0 - N ELSE N
  IN IF N = 0 THEN {One}
     ELSE IF IsNaN(x) THEN {NaN}
     ELSE IF IsZero(x) THEN (IF N < 0 THEN {Inf(s)} ELSE {Fin(s, 0)})
     ELSE IF IsInf(x) THEN (IF N < 0 THEN {Fin(s, 0)} ELSE {Inf(s)})
     ELSE IF N > 0 THEN Faithful(s, x.n ^ k, Pow2(FracBits * (k - 1)))
     ELSE Faithful(s, Pow2(FracBits * (k + 1)), x.n ^ k)

\* std::pow(double, int): the results a libm may return for x^N.  The special
\* cases are exact (C Annex F.10.4.4); any other result is one of the two
\* doubles that bracket the exact power, and the exact power when it is a double.
std_pow(x, N) ==
  LET s == IF x.sg = 1 /\ IsOdd(N) THEN 1 ELSE 0
      k == IF N < 0 THEN 0 - N ELSE N
  IN IF N = 0 THEN {One}
     ELSE IF IsNaN(x) THEN {NaN}
     ELSE IF IsZero(x) THEN (IF N < 0 THEN {Inf(s)} ELSE {Fin(s, 0)})
     ELSE IF IsInf(x) THEN (IF N < 0 THEN {Fin(s, 0)} ELSE {Inf(s)})
     ELSE IF N > 0 THEN Faithful(s, x.n ^ k, Pow2(FracBits * (k - 1)))
     ELSE Faithful(s, Pow2(FracBits * (k + 1)), x.n ^ k)

\* a total order of the doubles: -0 before +0, NaN after +infinity
FCmp_TotalOrder(x, y) ==
  LET key(v) == IF IsNaN(v) THEN 2 * MaxFin + 4
                ELSE IF IsInf(v) THEN (IF v.sg = 1 THEN 0 - 2 * MaxFin - 2
                                       ELSE 2 * MaxFin + 2)
                ELSE 2 * Signed(v) - (IF IsZero(v) THEN v.sg ELSE 0)
  IN IF key(x) < key(y) THEN "less"
     ELSE IF key(x) > key(y) THEN "greater" ELSE "equivalent"

\* std::partial_ordering of two doubles (operator<=> on double)
FCmp(x, y) ==
  IF IsNaN(x) \/ IsNaN(y) THEN "unordered"
  ELSE LET kx == IF IsInf(x) THEN (IF x.sg = 1 THEN 0 - MaxFin - 1 ELSE MaxFin + 1)
                 ELSE Signed(x)
           ky == IF IsInf(y) THEN (IF y.sg = 1 THEN 0 - MaxFin - 1 ELSE MaxFin + 1)
                 ELSE Signed(y)
       IN IF kx < ky THEN "less" ELSE IF kx > ky THEN "greater" ELSE "equivalent"

\* operator== on double
FEq(x, y) == FCmp(x, y) = "equivalent"

(***************************************************************************)
(* double and long double of the unit literals and physical constants:     *)
(* sign s, significand m of exactly p bits (0 for zero) and exponent e,    *)
(* standing for m * 2^e.  The exponent range is not bounded: the literals  *)
(* of the catalogue stay far from overflow and underflow.                  *)
(***************************************************************************)
W(s, m, e) == [s |-> s, m |-> m, e |-> e]

BitLen(n) == IF n = 0 THEN 0 ELSE CHOOSE k \in 1..30 : Pow2(k - 1) <= n /\ n < Pow2(k)

\* the p-bit number nearest to M * 2^E (M >= 0), ties to even
WRound(p, s, M, E) ==
  IF M = 0 THEN W(s, 0, 0)
  ELSE LET L == BitLen(M)
       IN IF L <= p THEN W(s, M * Pow2(p - L), E - (p - L))
          ELSE LET sh == L - p
                   q == M \div Pow2(sh)
                   rem == M % Pow2(sh)
                   half == Pow2(sh - 1)
                   up == rem > half \/ (rem = half /\ q % 2 = 1)
                   m == IF up THEN q + 1 ELSE q
               IN IF m = Pow2(p) THEN W(s, Pow2(p - 1), E + sh + 1)
                  ELSE W(s, m, E + sh)

\* a decimal constant of the source, by its binary expansion: the leading
\* bits m (at exponent e) and whether non-zero bits follow them
WLit(p, c) == WRound(p, 0, 2 * c.m + c.sticky, c.e - 1)

\* static_cast<double>(unsigned long long)
WInt(p, v) == WRound(p, 0, v, 0)

WMul(p, x, y) == WRound(p, Xor(x.s, y.s), x.m * y.m, x.e + y.e)

\* x / y for y # 0: p + 1 quotient bits and a sticky bit, then rounded
WDiv(p, x, y) ==
  IF x.m = 0 THEN W(Xor(x.s, y.s), 0, 0)
  ELSE LET num == x.m * Pow2(p + 1)
           q == num \div y.m
           st == IF num % y.m = 0 THEN 0 ELSE 1
       IN WRound(p, Xor(x.s, y.s), 2 * q + st, x.e - y.e - (p + 1) - 1)

\* hi + lo where hi has the larger exponent (hi, lo # 0)
WAddOrdered(p, hi, lo) ==
  LET d == hi.e - lo.e
      far == d > p + 2
      A == IF far THEN hi.m * 8 ELSE hi.m * Pow2(d)
      B == IF far THEN 1 ELSE lo.m
      E == IF far THEN hi.e - 3 ELSE lo.e
  IN IF hi.s = lo.s THEN WRound(p, hi.s, A + B, E)
     ELSE IF A = B THEN W(0, 0, 0)
     ELSE IF A > B THEN WRound(p, hi.s, A - B, E)
     ELSE WRound(p, lo.s, B - A, E)

WAdd(p, x, y) ==
  IF x.m = 0 /\ y.m = 0 THEN W(IF x.s = 1 /\ y.s = 1 THEN 1 ELSE 0, 0, 0)
  ELSE IF x.m = 0 THEN y
  ELSE IF y.m = 0 THEN x
  ELSE IF x.e >= y.e THEN WAddOrdered(p, x, y) ELSE WAddOrdered(p, y, x)

WSub(p, x, y) == WAdd(p, x, [y EXCEPT !.s = 1 - y.s])

\* long double -> double
WNarrow(p, x) == WRound(p, x.s, x.m, x.e)

\* std::sqrt of x > 0: p + 1 root bits and a sticky bit, then rounded
WSqrt(p, x) ==
  IF x.m = 0 THEN x
  ELSE LET k == IF (x.e - (p + 2)) % 2 = 0 THEN p + 2 ELSE p + 3
           N == x.m * Pow2(k)
           root == CHOOSE s \in Pow2(p)..Pow2(p + 2) : s * s <= N /\ (s + 1) * (s + 1) > N
           st == IF root * root = N THEN 0 ELSE 1
       IN WRound(p, 0, 2 * root + st, ((x.e - k) \div 2) - 1)

(***************************************************************************)
(* Dimensions<M, L, T, I, K, N, J> and the dimension algebra.              *)
(***************************************************************************)
Slots == {"mass", "length", "time", "current", "temp", "amount", "luminosity"}

Dimensions(M, L, T, I, K, N, J) ==
  [mass |-> M, length |-> L, time |-> T, current |-> I,
   temp |-> K, amount |-> N, luminosity |-> J]

\* DimAdd with the luminosity slot reading D1::amount
DimAdd_WrongSlot(D1, D2) ==
  Dimensions(D1.mass + D2.mass, D1.length + D2.length, D1.time + D2.time,
             D1.current + D2.current, D1.temp + D2.temp,
             D1.amount + D2.amount, D1.amount + D2.luminosity)

DimAdd(D1, D2) ==
  Dimensions(D1.mass + D2.mass, D1.length + D2.length, D1.time + D2.time,
             D1.current + D2.current, D1.temp + D2.temp,
             D1.amount + D2.amount, D1.luminosity + D2.luminosity)

\* DimSub with the operands of the temp slot reversed
DimSub_Reversed(D1, D2) ==
  Dimensions(D1.mass - D2.mass, D1.length - D2.length, D1.time - D2.time,
             D1.current - D2.current, D2.temp - D1.temp,
             D1.amount - D2.amount, D1.luminosity - D2.luminosity)

DimSub(D1, D2) ==
  Dimensions(D1.mass - D2.mass, D1.length - D2.length, D1.time - D2.time,
             D1.current - D2.current, D1.temp - D2.temp,
             D1.amount - D2.amount, D1.luminosity - D2.luminosity)

\* DimScale that leaves the amount slot unscaled
DimScale_Unscaled(D, N) ==
  Dimensions(D.mass * N, D.length * N, D.time * N,
             D.current * N, D.temp * N, D.amount, D.luminosity * N)

DimScale(D, N) ==
  Dimensions(D.mass * N, D.length * N, D.time * N,
             D.current * N, D.temp * N, D.amount * N, D.luminosity * N)

\* C++ integer division and remainder (truncation toward zero), divisor > 0
CDiv(x, y) == IF x >= 0 THEN x \div y ELSE 0 - ((0 - x) \div y)

CRem(x, y) == x - y * CDiv(x, y)

\* DimHalve whose parity tests read "% 2 != 1": a negative odd exponent passes
HalveAsserts_Positive(D) ==
  (IF CRem(D.mass, 2) # 1 THEN {} ELSE {"sqrt: mass exponent must be even"})
  \cup (IF CRem(D.length, 2) # 1 THEN {} ELSE {"sqrt: length exponent must be even"})
  \cup (IF CRem(D.time, 2) # 1 THEN {} ELSE {"sqrt: time exponent must be even"})
  \cup (IF CRem(D.current, 2) # 1 THEN {} ELSE {"sqrt: current exponent must be even"})
  \cup (IF CRem(D.temp, 2) # 1 THEN {} ELSE {"sqrt: temp exponent must be even"})
  \cup (IF CRem(D.amount, 2) # 1 THEN {} ELSE {"sqrt: amount exponent must be even"})
  \cup (IF CRem(D.luminosity, 2) # 1 THEN {}
        ELSE {"sqrt: luminosity exponent must be even"})

\* the static_asserts of DimHalve<D> that fail, by their messages
HalveAsserts(D) ==
  (IF CRem(D.mass, 2) = 0 THEN {} ELSE {"sqrt: mass exponent must be even"})
  \cup (IF CRem(D.length, 2) = 0 THEN {} ELSE {"sqrt: length exponent must be even"})
  \cup (IF CRem(D.time, 2) = 0 THEN {} ELSE {"sqrt: time exponent must be even"})
  \cup (IF CRem(D.current, 2) = 0 THEN {} ELSE {"sqrt: current exponent must be even"})
  \cup (IF CRem(D.temp, 2) = 0 THEN {} ELSE {"sqrt: temp exponent must be even"})
  \cup (IF CRem(D.amount, 2) = 0 THEN {} ELSE {"sqrt: amount exponent must be even"})
  \cup (IF CRem(D.luminosity, 2) = 0 THEN {}
        ELSE {"sqrt: luminosity exponent must be even"})

DimHalve(D) ==
  Dimensions(CDiv(D.mass, 2), CDiv(D.length, 2), CDiv(D.time, 2),
             CDiv(D.current, 2), CDiv(D.temp, 2), CDiv(D.amount, 2),
             CDiv(D.luminosity, 2))

\* type identity that looks at the three leading template arguments only
SameDimensions_Leading(D1, D2) ==
  D1.mass = D2.mass /\ D1.length = D2.length /\ D1.time = D2.time

\* two specialisations Dimensions<...> are the same type
SameDimensions(D1, D2) ==
  /\ D1.mass = D2.mass /\ D1.length = D2.length /\ D1.time = D2.time
  /\ D1.current = D2.current /\ D1.temp = D2.temp
  /\ D1.amount = D2.amount /\ D1.luminosity = D2.luminosity

(***************************************************************************)
(* Quantity<Dim> and its operators.                                        *)
(***************************************************************************)
Quantity(v, D) == [value |-> v, dim |-> D]

Quantity_mul(x, rhs) ==
  Quantity(FMul(x.value, rhs.value), DimAdd(x.dim, rhs.dim))

\* operator/ that derives its dimension with DimAdd
Quantity_div_Adds(x, rhs) ==
  Quantity(FDiv(x.value, rhs.value), DimAdd(x.dim, rhs.dim))

Quantity_div(x, rhs) ==
  Quantity(FDiv(x.value, rhs.value), DimSub(x.dim, rhs.dim))

Quantity_add(x, rhs) == Quantity(FAdd(x.value, rhs.value), x.dim)

Quantity_sub(x, rhs) == Quantity(FSub(x.value, rhs.value), x.dim)

Quantity_neg(x) == Quantity(FNeg(x.value), x.dim)

Quantity_mul_scalar(x, s) == Quantity(FMul(x.value, s), x.dim)

\* operator*(double, Quantity) that adds the scalar
scalar_mul_Quantity_Adds(s, q) == Quantity(FAdd(s, q.value), q.dim)

scalar_mul_Quantity(s, q) == Quantity(FMul(s, q.value), q.dim)

Quantity_div_scalar(x, s) == Quantity(FDiv(x.value, s), x.dim)

\* six relational operators written one by one, <= and >= as < and >
Quantity_cmp_HandRolled(x, rhs) ==
  LET c == FCmp(x.value, rhs.value)
  IN (IF FEq(x.value, rhs.value) THEN {"=="} ELSE {"!="})
     \cup (IF c = "less" THEN {"<", "<="} ELSE {})
     \cup (IF c = "greater" THEN {">", ">="} ELSE {})

\* the relational operators that are true of x and rhs: operator<=> is
\* defaulted, so ==  compares the members with == and != negates it, while
\* <, >, <=, >= are rewritten to tests of (x <=> rhs)
Quantity_cmp(x, rhs) ==
  LET c == FCmp(x.value, rhs.value)
  IN (IF FEq(x.value, rhs.value) THEN {"=="} ELSE {"!="})
     \cup (IF c = "less" THEN {"<"} ELSE {})
     \cup (IF c = "greater" THEN {">"} ELSE {})
     \cup (IF c \in {"less", "equivalent"} THEN {"<="} ELSE {})
     \cup (IF c \in {"greater", "equivalent"} THEN {">="} ELSE {})

\* operator+, operator-, operator<=> take a Quantity of the same specialisation
SameQuantityType(x, rhs) == SameDimensions(x.dim, rhs.dim)

pow(N, q) == {Quantity(v, DimScale(q.dim, N)) : v \in std_pow(q.value, N)}

sqrt(q) == Quantity(FSqrt(q.value), DimHalve(q.dim))

abs(q) == Quantity(FAbs(q.value), q.dim)

(***************************************************************************)
(* Stream output.  A std::string is the sequence of its chars; a char that *)
(* is no printable ASCII character is written as its escape in the source. *)
(***************************************************************************)
names == << <<"k", "g">>, <<"m">>, <<"s">>, <<"A">>, <<"K">>,
            <<"m", "o", "l">>, <<"c", "d">> >>

exps(D) ==
  <<D.mass, D.length, D.time, D.current, D.temp, D.amount, D.luminosity>>

\* the decimal digits of n >= 0
RECURSIVE Digits(_)
Digits(n) ==
  LET digit == <<"0", "1", "2", "3", "4", "5", "6", "7", "8", "9">>[(n % 10) + 1]
  IN IF n < 10 THEN <<digit>> ELSE Digits(n \div 10) \o <<digit>>

\* std::to_string(int) that drops the sign
to_string_Unsigned(n) == IF n < 0 THEN Digits(0 - n) ELSE Digits(n)

\* std::to_string(int)
to_string(n) == IF n < 0 THEN <<"-">> \o Digits(0 - n) ELSE Digits(n)

\* the loop of dim_string that writes the separator after every entry
RECURSIVE dim_loop_SeparatorAfter(_, _, _)
dim_loop_SeparatorAfter(ex, i, result) ==
  IF i > 7 THEN result
  ELSE IF ex[i] = 0 THEN dim_loop_SeparatorAfter(ex, i + 1, result)
  ELSE LET named == result \o names[i]
           powered == IF ex[i] # 1 THEN named \o <<"^">> \o to_string(ex[i])
                      ELSE named
       IN dim_loop_SeparatorAfter(ex, i + 1, powered \o <<"\\xc2", "\\xb7">>)

\* the loop of dim_string that leaves out the exponent when it is 1 or -1
RECURSIVE dim_loop_Magnitude(_, _, _)
dim_loop_Magnitude(ex, i, result) ==
  IF i > 7 THEN result
  ELSE IF ex[i] = 0 THEN dim_loop_Magnitude(ex, i + 1, result)
  ELSE LET sep == IF result # <<>> THEN result \o <<"\\xc2", "\\xb7">> ELSE result
           named == sep \o names[i]
           powered == IF ex[i] # 1 /\ ex[i] # -1
                      THEN named \o <<"^">> \o to_string(ex[i]) ELSE named
       IN dim_loop_Magnitude(ex, i + 1, powered)

\* the loop of dim_string from slot i on, result being the text so far
RECURSIVE dim_loop(_, _, _)
dim_loop(ex, i, result) ==
  IF i > 7 THEN result
  ELSE IF ex[i] = 0 THEN dim_loop(ex, i + 1, result)
  ELSE LET sep == IF result # <<>> THEN result \o <<"\\xc2", "\\xb7">> ELSE result
           named == sep \o names[i]
           powered == IF ex[i] # 1 THEN named \o <<"^">> \o to_string(ex[i])
                      ELSE named
       IN dim_loop(ex, i + 1, powered)

dim_string(D) ==
  LET result == dim_loop(exps(D), 1, <<>>)
  IN IF result = <<>> THEN <<"1">> ELSE result

\* the decimal digits of the fraction num/den, den a power of two
RECURSIVE FracDigits(_, _)
FracDigits(num, den) ==
  IF num = 0 THEN <<>>
  ELSE Digits((num * 10) \div den) \o FracDigits((num * 10) % den, den)

\* os << double with the default format (%g, six significant digits): every
\* finite double of the model has at most six significant decimal digits and
\* a decimal exponent in -5..5, so it is written exactly in fixed notation;
\* whether the sign of a NaN is written depends on the NaN the build produces
ostream_double(v) ==
  IF IsNaN(v) THEN {<<"n", "a", "n">>, <<"-", "n", "a", "n">>}
  ELSE LET sign == IF v.sg = 1 THEN <<"-">> ELSE <<>>
       IN IF IsInf(v) THEN {sign \o <<"i", "n", "f">>}
          ELSE LET int == v.n \div Pow2(FracBits)
                   frac == v.n % Pow2(FracBits)
               IN {sign \o Digits(int)
                     \o (IF frac = 0 THEN <<>>
                         ELSE <<".">> \o FracDigits(frac, Pow2(FracBits)))}

\* operator<<(std::ostream&, Q): the texts it may append to the stream
ostream_Quantity(q) ==
  {m \o <<" ", "[">> \o dim_string(q.dim) \o <<"]">> : m \in ostream_double(q.value)}

(***************************************************************************)
(* Unit literals (namespace si_literals) and namespace constants.          *)
(***************************************************************************)
\* significand bits of double in the programs with unit literals
UMantBits == 10

\* largest integer spelled as a literal, besides those of the tests
MaxRaw == 40

\* significand bits of long double: those of double on some targets, more
\* on the others
LongDoubleFormats == {UMantBits, UMantBits + 3}

\* the double nearest to a decimal literal
Double(c) == WLit(UMantBits, c)

\* the type aliases of units.h, by name
Aliases ==
  [Mass |-> Dimensions(1, 0, 0, 0, 0, 0, 0),
   Length |-> Dimensions(0, 1, 0, 0, 0, 0, 0),
   Time |-> Dimensions(0, 0, 1, 0, 0, 0, 0),
   Current |-> Dimensions(0, 0, 0, 1, 0, 0, 0),
   Temperature |-> Dimensions(0, 0, 0, 0, 1, 0, 0),
   Amount |-> Dimensions(0, 0, 0, 0, 0, 1, 0),
   Luminosity |-> Dimensions(0, 0, 0, 0, 0, 0, 1),
   Area |-> Dimensions(0, 2, 0, 0, 0, 0, 0),
   Volume |-> Dimensions(0, 3, 0, 0, 0, 0, 0),
   Velocity |-> Dimensions(0, 1, -1, 0, 0, 0, 0),
   Acceleration |-> Dimensions(0, 1, -2, 0, 0, 0, 0),
   Momentum |-> Dimensions(1, 1, -1, 0, 0, 0, 0),
   Force |-> Dimensions(1, 1, -2, 0, 0, 0, 0),
   Energy |-> Dimensions(1, 2, -2, 0, 0, 0, 0),
   Power |-> Dimensions(1, 2, -3, 0, 0, 0, 0),
   Pressure |-> Dimensions(1, -1, -2, 0, 0, 0, 0),
   Frequency |-> Dimensions(0, 0, -1, 0, 0, 0, 0),
   Density |-> Dimensions(1, -3, 0, 0, 0, 0, 0),
   DynamicViscosity |-> Dimensions(1, -1, -1, 0, 0, 0, 0),
   KinematicViscosity |-> Dimensions(0, 2, -1, 0, 0, 0, 0),
   Action |-> Dimensions(1, 2, -1, 0, 0, 0, 0),
   Charge |-> Dimensions(0, 0, 1, 1, 0, 0, 0),
   Voltage |-> Dimensions(1, 2, -3, -1, 0, 0, 0),
   Resistance |-> Dimensions(1, 2, -3, -2, 0, 0, 0),
   Capacitance |-> Dimensions(-1, -2, 4, 2, 0, 0, 0),
   Inductance |-> Dimensions(1, 2, -2, -2, 0, 0, 0),
   MagneticFlux |-> Dimensions(1, 2, -2, -1, 0, 0, 0),
   MagneticField |-> Dimensions(1, 0, -2, -1, 0, 0, 0),
   Conductance |-> Dimensions(-1, -2, 3, 2, 0, 0, 0),
   ElectricField |-> Dimensions(1, 1, -3, -1, 0, 0, 0),
   Entropy |-> Dimensions(1, 2, -2, 0, -1, 0, 0),
   SpecificHeat |-> Dimensions(0, 2, -2, 0, -1, 0, 0),
   ThermalConductivity |-> Dimensions(1, 1, -3, 0, -1, 0, 0),
   MolarMass |-> Dimensions(1, 0, 0, 0, 0, -1, 0),
   Concentration |-> Dimensions(0, -3, 0, 0, 0, 1, 0),
   CatalyticActivity |-> Dimensions(0, 0, -1, 0, 0, 1, 0),
   MolarEnergy |-> Dimensions(1, 2, -2, 0, 0, -1, 0),
   MolarEntropy |-> Dimensions(1, 2, -2, 0, -1, -1, 0),
   RadioactiveActivity |-> Dimensions(0, 0, -1, 0, 0, 0, 0),
   AbsorbedDose |-> Dimensions(0, 2, -2, 0, 0, 0, 0),
   LuminousFlux |-> Dimensions(0, 0, 0, 0, 0, 0, 1),
   Illuminance |-> Dimensions(0, -2, 0, 0, 0, 0, 1)]

\* the literals of namespace constants
ConstantLiterals ==
  [c |-> [type |-> "Velocity", dim |-> Dimensions(0, 1, -1, 0, 0, 0, 0), lit |-> [text |-> "299792458.0", m |-> 149896229, e |-> 1, sticky |-> 0]],
   h |-> [type |-> "Action", dim |-> Dimensions(1, 2, -1, 0, 0, 0, 0), lit |-> [text |-> "6.62607015e-34", m |-> 230884847, e |-> -138, sticky |-> 1]],
   hbar |-> [type |-> "Action", dim |-> Dimensions(1, 2, -1, 0, 0, 0, 0), lit |-> [text |-> "1.054571817e-34", m |-> 146985858, e |-> -140, sticky |-> 1]],
   e |-> [type |-> "Charge", dim |-> Dimensions(0, 0, 1, 1, 0, 0, 0), lit |-> [text |-> "1.602176634e-19", m |-> 198339860, e |-> -90, sticky |-> 1]],
   k_B |-> [type |-> "Entropy", dim |-> Dimensions(1, 2, -2, 0, -1, 0, 0), lit |-> [text |-> "1.380649e-23", m |-> 140014442, e |-> -103, sticky |-> 1]],
   R |-> [type |-> "MolarEntropy", dim |-> Dimensions(1, 2, -2, 0, -1, -1, 0), lit |-> [text |-> "8.314462618", m |-> 139493535, e |-> -24, sticky |-> 1]],
   m_e |-> [type |-> "Mass", dim |-> Dimensions(1, 0, 0, 0, 0, 0, 0), lit |-> [text |-> "9.1093837015e-31", m |-> 154988132, e |-> -127, sticky |-> 1]],
   m_p |-> [type |-> "Mass", dim |-> Dimensions(1, 0, 0, 0, 0, 0, 0), lit |-> [text |-> "1.67262192369e-27", m |-> 138955992, e |-> -116, sticky |-> 1]],
   m_n |-> [type |-> "Mass", dim |-> Dimensions(1, 0, 0, 0, 0, 0, 0), lit |-> [text |-> "1.67492749804e-27", m |-> 139147532, e |-> -116, sticky |-> 1]],
   G |-> [type |-> "_GravType", dim |-> Dimensions(-1, 3, -2, 0, 0, 0, 0), lit |-> [text |-> "6.67430e-11", m |-> 153898879, e |-> -61, sticky |-> 1]],
   N_A |-> [type |-> "_InvAmtType", dim |-> Dimensions(0, 0, 0, 0, 0, -1, 0), lit |-> [text |-> "6.02214076e23", m |-> 267436773, e |-> 51, sticky |-> 1]],
   sigma |-> [type |-> "_SBType", dim |-> Dimensions(1, 0, -3, 0, -4, 0, 0), lit |-> [text |-> "5.670374419e-8", m |-> 255370961, e |-> -52, sticky |-> 1]]]

\* operator""_<unit>: the return type, the form of the conversion and its
\* scale literal (a quotient scale / div of two literals for kind "ratio")
Catalogue ==
  {[unit |-> "_kg", type |-> "Mass", kind |-> "plain",
    scale |-> [text |-> "1", m |-> 134217728, e |-> -27, sticky |-> 0],
    div |-> [text |-> "1", m |-> 134217728, e |-> -27, sticky |-> 0]],
   [unit |-> "_g", type |-> "Mass", kind |-> "scale",
    scale |-> [text |-> "1e-3", m |-> 137438953, e |-> -37, sticky |-> 1],
    div |-> [text |-> "1", m |-> 134217728, e |-> -27, sticky |-> 0]],
   [unit |-> "_mg", type |-> "Mass", kind |-> "scale",
    scale |-> [text |-> "1e-6", m |-> 140737488, e |-> -47, sticky |-> 1],
    div |-> [text |-> "1", m |-> 134217728, e |-> -27, sticky |-> 0]],
   [unit |-> "_Da", type |-> "Mass", kind |-> "scale",
    scale |-> [text |-> "1.66053906660e-27", m |-> 137952188, e |-> -116, sticky |-> 1],
    div |-> [text |-> "1", m |-> 134217728, e |-> -27, sticky |-> 0]],
   [unit |-> "_u", type |-> "Mass", kind |-> "scale",
    scale |-> [text |-> "1.66053906660e-27", m |-> 137952188, e |-> -116, sticky |-> 1],
    div |-> [text |-> "1", m |-> 134217728, e |-> -27, sticky |-> 0]],
   [unit |-> "_tonne", type |-> "Mass", kind |-> "scale",
    scale |-> [text |-> "1e3", m |-> 262144000, e |-> -18, sticky |-> 0],
    div |-> [text |-> "1", m |-> 134217728, e |-> -27, sticky |-> 0]],
   [unit |-> "_lb", type |-> "Mass", kind |-> "scale",
    scale |-> [text |-> "0.45359237", m |-> 243520549, e |-> -29, sticky |-> 1],
    div |-> [text |-> "1", m |-> 134217728, e |-> -27, sticky |-> 0]],
   [unit |-> "_lbm", type |-> "Mass", kind |-> "scale",
    scale |-> [text |-> "0.45359237", m |-> 243520549, e |-> -29, sticky |-> 1],
    div |-> [text |-> "1", m |-> 134217728, e |-> -27, sticky |-> 0]],
   [unit |-> "_oz", type |-> "Mass", kind |-> "scale",
    scale |-> [text |-> "0.028349523125", m |-> 243520549, e |-> -33, sticky |-> 1],
    div |-> [text |-> "1", m |-> 134217728, e |-> -27, sticky |-> 0]],
   [unit |-> "_slug", type |-> "Mass", kind |-> "scale",
    scale |-> [text |-> "14.593902937", m |-> 244845061, e |-> -24, sticky |-> 1],
    div |-> [text |-> "1", m |-> 134217728, e |-> -27, sticky |-> 0]],
   [unit |-> "_m", type |-> "Length", kind |-> "plain",
    scale |-> [text |-> "1", m |-> 134217728, e |-> -27, sticky |-> 0],
    div |-> [text |-> "1", m |-> 134217728, e |-> -27, sticky |-> 0]],
   [unit |-> "_km", type |-> "Length", kind |-> "scale",
    scale |-> [text |-> "1e3", m |-> 262144000, e |-> -18, sticky |-> 0],
    div |-> [text |-> "1", m |-> 134217728, e |-> -27, sticky |-> 0]],
   [unit |-> "_cm", type |-> "Length", kind |-> "scale",
    scale |-> [text |-> "1e-2", m |-> 171798691, e |-> -34, sticky |-> 1],
    div |-> [text |-> "1", m |-> 134217728, e |-> -27, sticky |-> 0]],
   [unit |-> "_mm", type |-> "Length", kind |-> "scale",
    scale |-> [text |-> "1e-3", m |-> 137438953, e |-> -37, sticky |-> 1],
    div |-> [text |-> "1", m |-> 134217728, e |-> -27, sticky |-> 0]],
   [unit |-> "_in", type |-> "Length", kind |-> "scale",
    scale |-> [text |-> "0.0254", m |-> 218184338, e |-> -33, sticky |-> 1],
    div |-> [text |-> "1", m |-> 134217728, e |-> -27, sticky |-> 0]],
   [unit |-> "_ft", type |-> "Length", kind |-> "scale",
    scale |-> [text |-> "0.3048", m |-> 163638253, e |-> -29, sticky |-> 1],
    div |-> [text |-> "1", m |-> 134217728, e |-> -27, sticky |-> 0]],
   [unit |-> "_yd", type |-> "Length", kind |-> "scale",
    scale |-> [text |-> "0.9144", m |-> 245457380, e |-> -28, sticky |-> 1],
    div |-> [text |-> "1", m |-> 134217728, e |-> -27, sticky |-> 0]],
   [unit |-> "_mi", type |-> "Length", kind |-> "scale",
    scale |-> [text |-> "1609.344", m |-> 210939936, e |-> -17, sticky |-> 1],
    div |-> [text |-> "1", m |-> 134217728, e |-> -27, sticky |-> 0]],
   [unit |-> "_nmi", type |-> "Length", kind |-> "scale",
    scale |-> [text |-> "1852.0", m |-> 242745344, e |-> -17, sticky |-> 0],
    div |-> [text |-> "1", m |-> 134217728, e |-> -27, sticky |-> 0]],
   [unit |-> "_au", type |-> "Length", kind |-> "scale",
    scale |-> [text |-> "1.495978707e11", m |-> 146091670, e |-> 10, sticky |-> 1],
    div |-> [text |-> "1", m |-> 134217728, e |-> -27, sticky |-> 0]],
   [unit |-> "_ly", type |-> "Length", kind |-> "scale",
    scale |-> [text |-> "9.4607304725808e15", m |-> 140975869, e |-> 26, sticky |-> 1],
    div |-> [text |-> "1", m |-> 134217728, e |-> -27, sticky |-> 0]],
   [unit |-> "_pc", type |-> "Length", kind |-> "scale",
    scale |-> [text |-> "3.085677581491367e16", m |-> 229900895, e |-> 27, sticky |-> 1],
    div |-> [text |-> "1", m |-> 134217728, e |-> -27, sticky |-> 0]],
   [unit |-> "_kpc", type |-> "Length", kind |-> "scale",
    scale |-> [text |-> "3.085677581491367e19", m |-> 224512592, e |-> 37, sticky |-> 1],
    div |-> [text |-> "1", m |-> 134217728, e |-> -27, sticky |-> 0]],
   [unit |-> "_Mpc", type |-> "Length", kind |-> "scale",
    scale |-> [text |-> "3.085677581491367e22", m |-> 219250579, e |-> 47, sticky |-> 1],
    div |-> [text |-> "1", m |-> 134217728, e |-> -27, sticky |-> 0]],
   [unit |-> "_s", type |-> "Time", kind |-> "plain",
    scale |-> [text |-> "1", m |-> 134217728, e |-> -27, sticky |-> 0],
    div |-> [text |-> "1", m |-> 134217728, e |-> -27, sticky |-> 0]],
   [unit |-> "_ms", type |-> "Time", kind |-> "scale",
    scale |-> [text |-> "1e-3", m |-> 137438953, e |-> -37, sticky |-> 1],
    div |-> [text |-> "1", m |-> 134217728, e |-> -27, sticky |-> 0]],
   [unit |-> "_us", type |-> "Time", kind |-> "scale",
    scale |-> [text |-> "1e-6", m |-> 140737488, e |-> -47, sticky |-> 1],
    div |-> [text |-> "1", m |-> 134217728, e |-> -27, sticky |-> 0]],
   [unit |-> "_min", type |-> "Time", kind |-> "scale",
    scale |-> [text |-> "60.0", m |-> 251658240, e |-> -22, sticky |-> 0],
    div |-> [text |-> "1", m |-> 134217728, e |-> -27, sticky |-> 0]],
   [unit |-> "_hr", type |-> "Time", kind |-> "scale",
    scale |-> [text |-> "3600.0", m |-> 235929600, e |-> -16, sticky |-> 0],
    div |-> [text |-> "1", m |-> 134217728, e |-> -27, sticky |-> 0]],
   [unit |-> "_day", type |-> "Time", kind |-> "scale",
    scale |-> [text |-> "86400.0", m |-> 176947200, e |-> -11, sticky |-> 0],
    div |-> [text |-> "1", m |-> 134217728, e |-> -27, sticky |-> 0]],
   [unit |-> "_yr", type |-> "Time", kind |-> "scale",
    scale |-> [text |-> "31557600.0", m |-> 252460800, e |-> -3, sticky |-> 0],
    div |-> [text |-> "1", m |-> 134217728, e |-> -27, sticky |-> 0]],
   [unit |-> "_A", type |-> "Current", kind |-> "plain",
    scale |-> [text |-> "1", m |-> 134217728, e |-> -27, sticky |-> 0],
    div |-> [text |-> "1", m |-> 134217728, e |-> -27, sticky |-> 0]],
   [unit |-> "_mA", type |-> "Current", kind |-> "scale",
    scale |-> [text |-> "1e-3", m |-> 137438953, e |-> -37, sticky |-> 1],
    div |-> [text |-> "1", m |-> 134217728, e |-> -27, sticky |-> 0]],
   [unit |-> "_uA", type |-> "Current", kind |-> "scale",
    scale |-> [text |-> "1e-6", m |-> 140737488, e |-> -47, sticky |-> 1],
    div |-> [text |-> "1", m |-> 134217728, e |-> -27, sticky |-> 0]],
   [unit |-> "_nA", type |-> "Current", kind |-> "scale",
    scale |-> [text |-> "1e-9", m |-> 144115188, e |-> -57, sticky |-> 1],
    div |-> [text |-> "1", m |-> 134217728, e |-> -27, sticky |-> 0]],
   [unit |-> "_K", type |-> "Temperature", kind |-> "plain",
    scale |-> [text |-> "1", m |-> 134217728, e |-> -27, sticky |-> 0],
    div |-> [text |-> "1", m |-> 134217728, e |-> -27, sticky |-> 0]],
   [unit |-> "_degC", type |-> "Temperature", kind |-> "degC",
    scale |-> [text |-> "1", m |-> 134217728, e |-> -27, sticky |-> 0],
    div |-> [text |-> "1", m |-> 134217728, e |-> -27, sticky |-> 0]],
   [unit |-> "_degF", type |-> "Temperature", kind |-> "degF",
    scale |-> [text |-> "1", m |-> 134217728, e |-> -27, sticky |-> 0],
    div |-> [text |-> "1", m |-> 134217728, e |-> -27, sticky |-> 0]],
   [unit |-> "_mol", type |-> "Amount", kind |-> "plain",
    scale |-> [text |-> "1", m |-> 134217728, e |-> -27, sticky |-> 0],
    div |-> [text |-> "1", m |-> 134217728, e |-> -27, sticky |-> 0]],
   [unit |-> "_mmol", type |-> "Amount", kind |-> "scale",
    scale |-> [text |-> "1e-3", m |-> 137438953, e |-> -37, sticky |-> 1],
    div |-> [text |-> "1", m |-> 134217728, e |-> -27, sticky |-> 0]],
   [unit |-> "_cd", type |-> "Luminosity", kind |-> "plain",
    scale |-> [text |-> "1", m |-> 134217728, e |-> -27, sticky |-> 0],
    div |-> [text |-> "1", m |-> 134217728, e |-> -27, sticky |-> 0]],
   [unit |-> "_N", type |-> "Force", kind |-> "plain",
    scale |-> [text |-> "1", m |-> 134217728, e |-> -27, sticky |-> 0],
    div |-> [text |-> "1", m |-> 134217728, e |-> -27, sticky |-> 0]],
   [unit |-> "_kN", type |-> "Force", kind |-> "scale",
    scale |-> [text |-> "1e3", m |-> 262144000, e |-> -18, sticky |-> 0],
    div |-> [text |-> "1", m |-> 134217728, e |-> -27, sticky |-> 0]],
   [unit |-> "_lbf", type |-> "Force", kind |-> "scale",
    scale |-> [text |-> "4.4482216152605", m |-> 149257549, e |-> -25, sticky |-> 1],
    div |-> [text |-> "1", m |-> 134217728, e |-> -27, sticky |-> 0]],
   [unit |-> "_J", type |-> "Energy", kind |-> "plain",
    scale |-> [text |-> "1", m |-> 134217728, e |-> -27, sticky |-> 0],
    div |-> [text |-> "1", m |-> 134217728, e |-> -27, sticky |-> 0]],
   [unit |-> "_kJ", type |-> "Energy", kind |-> "scale",
    scale |-> [text |-> "1e3", m |-> 262144000, e |-> -18, sticky |-> 0],
    div |-> [text |-> "1", m |-> 134217728, e |-> -27, sticky |-> 0]],
   [unit |-> "_cal", type |-> "Energy", kind |-> "scale",
    scale |-> [text |-> "4.184", m |-> 140391743, e |-> -25, sticky |-> 1],
    div |-> [text |-> "1", m |-> 134217728, e |-> -27, sticky |-> 0]],
   [unit |-> "_kcal", type |-> "Energy", kind |-> "scale",
    scale |-> [text |-> "4184.0", m |-> 137101312, e |-> -15, sticky |-> 0],
    div |-> [text |-> "1", m |-> 134217728, e |-> -27, sticky |-> 0]],
   [unit |-> "_eV", type |-> "Energy", kind |-> "scale",
    scale |-> [text |-> "1.602176634e-19", m |-> 198339860, e |-> -90, sticky |-> 1],
    div |-> [text |-> "1", m |-> 134217728, e |-> -27, sticky |-> 0]],
   [unit |-> "_meV", type |-> "Energy", kind |-> "scale",
    scale |-> [text |-> "1.602176634e-22", m |-> 203100017, e |-> -100, sticky |-> 1],
    div |-> [text |-> "1", m |-> 134217728, e |-> -27, sticky |-> 0]],
   [unit |-> "_MeV", type |-> "Energy", kind |-> "scale",
    scale |-> [text |-> "1.602176634e-13", m |-> 189151630, e |-> -70, sticky |-> 1],
    div |-> [text |-> "1", m |-> 134217728, e |-> -27, sticky |-> 0]],
   [unit |-> "_GeV", type |-> "Energy", kind |-> "scale",
    scale |-> [text |-> "1.602176634e-10", m |-> 184718389, e |-> -60, sticky |-> 1],
    div |-> [text |-> "1", m |-> 134217728, e |-> -27, sticky |-> 0]],
   [unit |-> "_Wh", type |-> "Energy", kind |-> "scale",
    scale |-> [text |-> "3600.0", m |-> 235929600, e |-> -16, sticky |-> 0],
    div |-> [text |-> "1", m |-> 134217728, e |-> -27, sticky |-> 0]],
   [unit |-> "_kWh", type |-> "Energy", kind |-> "scale",
    scale |-> [text |-> "3.6e6", m |-> 230400000, e |-> -6, sticky |-> 0],
    div |-> [text |-> "1", m |-> 134217728, e |-> -27, sticky |-> 0]],
   [unit |-> "_BTU", type |-> "Energy", kind |-> "scale",
    scale |-> [text |-> "1055.05585262", m |-> 138288280, e |-> -17, sticky |-> 1],
    div |-> [text |-> "1", m |-> 134217728, e |-> -27, sticky |-> 0]],
   [unit |-> "_W", type |-> "Power", kind |-> "plain",
    scale |-> [text |-> "1", m |-> 134217728, e |-> -27, sticky |-> 0],
    div |-> [text |-> "1", m |-> 134217728, e |-> -27, sticky |-> 0]],
   [unit |-> "_kW", type |-> "Power", kind |-> "scale",
    scale |-> [text |-> "1e3", m |-> 262144000, e |-> -18, sticky |-> 0],
    div |-> [text |-> "1", m |-> 134217728, e |-> -27, sticky |-> 0]],
   [unit |-> "_MW", type |-> "Power", kind |-> "scale",
    scale |-> [text |-> "1e6", m |-> 256000000, e |-> -8, sticky |-> 0],
    div |-> [text |-> "1", m |-> 134217728, e |-> -27, sticky |-> 0]],
   [unit |-> "_hp", type |-> "Power", kind |-> "scale",
    scale |-> [text |-> "745.69987158227022", m |-> 195480747, e |-> -18, sticky |-> 1],
    div |-> [text |-> "1", m |-> 134217728, e |-> -27, sticky |-> 0]],
   [unit |-> "_Pa", type |-> "Pressure", kind |-> "plain",
    scale |-> [text |-> "1", m |-> 134217728, e |-> -27, sticky |-> 0],
    div |-> [text |-> "1", m |-> 134217728, e |-> -27, sticky |-> 0]],
   [unit |-> "_kPa", type |-> "Pressure", kind |-> "scale",
    scale |-> [text |-> "1e3", m |-> 262144000, e |-> -18, sticky |-> 0],
    div |-> [text |-> "1", m |-> 134217728, e |-> -27, sticky |-> 0]],
   [unit |-> "_MPa", type |-> "Pressure", kind |-> "scale",
    scale |-> [text |-> "1e6", m |-> 256000000, e |-> -8, sticky |-> 0],
    div |-> [text |-> "1", m |-> 134217728, e |-> -27, sticky |-> 0]],
   [unit |-> "_bar", type |-> "Pressure", kind |-> "scale",
    scale |-> [text |-> "1e5", m |-> 204800000, e |-> -11, sticky |-> 0],
    div |-> [text |-> "1", m |-> 134217728, e |-> -27, sticky |-> 0]],
   [unit |-> "_atm", type |-> "Pressure", kind |-> "scale",
    scale |-> [text |-> "101325.0", m |-> 207513600, e |-> -11, sticky |-> 0],
    div |-> [text |-> "1", m |-> 134217728, e |-> -27, sticky |-> 0]],
   [unit |-> "_psi", type |-> "Pressure", kind |-> "scale",
    scale |-> [text |-> "6894.757293168", m |-> 225927406, e |-> -15, sticky |-> 1],
    div |-> [text |-> "1", m |-> 134217728, e |-> -27, sticky |-> 0]],
   [unit |-> "_torr", type |-> "Pressure", kind |-> "ratio",
    scale |-> [text |-> "101325.0", m |-> 207513600, e |-> -11, sticky |-> 0],
    div |-> [text |-> "760.0", m |-> 199229440, e |-> -18, sticky |-> 0]],
   [unit |-> "_mmHg", type |-> "Pressure", kind |-> "scale",
    scale |-> [text |-> "133.322387415", m |-> 139798655, e |-> -20, sticky |-> 1],
    div |-> [text |-> "1", m |-> 134217728, e |-> -27, sticky |-> 0]],
   [unit |-> "_Hz", type |-> "Frequency", kind |-> "plain",
    scale |-> [text |-> "1", m |-> 134217728, e |-> -27, sticky |-> 0],
    div |-> [text |-> "1", m |-> 134217728, e |-> -27, sticky |-> 0]],
   [unit |-> "_kHz", type |-> "Frequency", kind |-> "scale",
    scale |-> [text |-> "1e3", m |-> 262144000, e |-> -18, sticky |-> 0],
    div |-> [text |-> "1", m |-> 134217728, e |-> -27, sticky |-> 0]],
   [unit |-> "_MHz", type |-> "Frequency", kind |-> "scale",
    scale |-> [text |-> "1e6", m |-> 256000000, e |-> -8, sticky |-> 0],
    div |-> [text |-> "1", m |-> 134217728, e |-> -27, sticky |-> 0]],
   [unit |-> "_GHz", type |-> "Frequency", kind |-> "scale",
    scale |-> [text |-> "1e9", m |-> 250000000, e |-> 2, sticky |-> 0],
    div |-> [text |-> "1", m |-> 134217728, e |-> -27, sticky |-> 0]],
   [unit |-> "_L", type |-> "Volume", kind |-> "scale",
    scale |-> [text |-> "1e-3", m |-> 137438953, e |-> -37, sticky |-> 1],
    div |-> [text |-> "1", m |-> 134217728, e |-> -27, sticky |-> 0]],
   [unit |-> "_mL", type |-> "Volume", kind |-> "scale",
    scale |-> [text |-> "1e-6", m |-> 140737488, e |-> -47, sticky |-> 1],
    div |-> [text |-> "1", m |-> 134217728, e |-> -27, sticky |-> 0]],
   [unit |-> "_b", type |-> "Area", kind |-> "scale",
    scale |-> [text |-> "1e-28", m |-> 265845599, e |-> -121, sticky |-> 1],
    div |-> [text |-> "1", m |-> 134217728, e |-> -27, sticky |-> 0]],
   [unit |-> "_kn", type |-> "Velocity", kind |-> "ratio",
    scale |-> [text |-> "1852.0", m |-> 242745344, e |-> -17, sticky |-> 0],
    div |-> [text |-> "3600.0", m |-> 235929600, e |-> -16, sticky |-> 0]],
   [unit |-> "_MV", type |-> "Voltage", kind |-> "scale",
    scale |-> [text |-> "1e6", m |-> 256000000, e |-> -8, sticky |-> 0],
    div |-> [text |-> "1", m |-> 134217728, e |-> -27, sticky |-> 0]],
   [unit |-> "_kV", type |-> "Voltage", kind |-> "scale",
    scale |-> [text |-> "1e3", m |-> 262144000, e |-> -18, sticky |-> 0],
    div |-> [text |-> "1", m |-> 134217728, e |-> -27, sticky |-> 0]],
   [unit |-> "_V", type |-> "Voltage", kind |-> "plain",
    scale |-> [text |-> "1", m |-> 134217728, e |-> -27, sticky |-> 0],
    div |-> [text |-> "1", m |-> 134217728, e |-> -27, sticky |-> 0]],
   [unit |-> "_mV", type |-> "Voltage", kind |-> "scale",
    scale |-> [text |-> "1e-3", m |-> 137438953, e |-> -37, sticky |-> 1],
    div |-> [text |-> "1", m |-> 134217728, e |-> -27, sticky |-> 0]],
   [unit |-> "_uV", type |-> "Voltage", kind |-> "scale",
    scale |-> [text |-> "1e-6", m |-> 140737488, e |-> -47, sticky |-> 1],
    div |-> [text |-> "1", m |-> 134217728, e |-> -27, sticky |-> 0]],
   [unit |-> "_C", type |-> "Charge", kind |-> "plain",
    scale |-> [text |-> "1", m |-> 134217728, e |-> -27, sticky |-> 0],
    div |-> [text |-> "1", m |-> 134217728, e |-> -27, sticky |-> 0]],
   [unit |-> "_mC", type |-> "Charge", kind |-> "scale",
    scale |-> [text |-> "1e-3", m |-> 137438953, e |-> -37, sticky |-> 1],
    div |-> [text |-> "1", m |-> 134217728, e |-> -27, sticky |-> 0]],
   [unit |-> "_uC", type |-> "Charge", kind |-> "scale",
    scale |-> [text |-> "1e-6", m |-> 140737488, e |-> -47, sticky |-> 1],
    div |-> [text |-> "1", m |-> 134217728, e |-> -27, sticky |-> 0]],
   [unit |-> "_nC", type |-> "Charge", kind |-> "scale",
    scale |-> [text |-> "1e-9", m |-> 144115188, e |-> -57, sticky |-> 1],
    div |-> [text |-> "1", m |-> 134217728, e |-> -27, sticky |-> 0]],
   [unit |-> "_pC", type |-> "Charge", kind |-> "scale",
    scale |-> [text |-> "1e-12", m |-> 147573952, e |-> -67, sticky |-> 1],
    div |-> [text |-> "1", m |-> 134217728, e |-> -27, sticky |-> 0]],
   [unit |-> "_Wb", type |-> "MagneticFlux", kind |-> "plain",
    scale |-> [text |-> "1", m |-> 134217728, e |-> -27, sticky |-> 0],
    div |-> [text |-> "1", m |-> 134217728, e |-> -27, sticky |-> 0]],
   [unit |-> "_T", type |-> "MagneticField", kind |-> "plain",
    scale |-> [text |-> "1", m |-> 134217728, e |-> -27, sticky |-> 0],
    div |-> [text |-> "1", m |-> 134217728, e |-> -27, sticky |-> 0]],
   [unit |-> "_H", type |-> "Inductance", kind |-> "plain",
    scale |-> [text |-> "1", m |-> 134217728, e |-> -27, sticky |-> 0],
    div |-> [text |-> "1", m |-> 134217728, e |-> -27, sticky |-> 0]],
   [unit |-> "_mH", type |-> "Inductance", kind |-> "scale",
    scale |-> [text |-> "1e-3", m |-> 137438953, e |-> -37, sticky |-> 1],
    div |-> [text |-> "1", m |-> 134217728, e |-> -27, sticky |-> 0]],
   [unit |-> "_uH", type |-> "Inductance", kind |-> "scale",
    scale |-> [text |-> "1e-6", m |-> 140737488, e |-> -47, sticky |-> 1],
    div |-> [text |-> "1", m |-> 134217728, e |-> -27, sticky |-> 0]],
   [unit |-> "_nH", type |-> "Inductance", kind |-> "scale",
    scale |-> [text |-> "1e-9", m |-> 144115188, e |-> -57, sticky |-> 1],
    div |-> [text |-> "1", m |-> 134217728, e |-> -27, sticky |-> 0]],
   [unit |-> "_F", type |-> "Capacitance", kind |-> "plain",
    scale |-> [text |-> "1", m |-> 134217728, e |-> -27, sticky |-> 0],
    div |-> [text |-> "1", m |-> 134217728, e |-> -27, sticky |-> 0]],
   [unit |-> "_mF", type |-> "Capacitance", kind |-> "scale",
    scale |-> [text |-> "1e-3", m |-> 137438953, e |-> -37, sticky |-> 1],
    div |-> [text |-> "1", m |-> 134217728, e |-> -27, sticky |-> 0]],
   [unit |-> "_uF", type |-> "Capacitance", kind |-> "scale",
    scale |-> [text |-> "1e-6", m |-> 140737488, e |-> -47, sticky |-> 1],
    div |-> [text |-> "1", m |-> 134217728, e |-> -27, sticky |-> 0]],
   [unit |-> "_nF", type |-> "Capacitance", kind |-> "scale",
    scale |-> [text |-> "1e-9", m |-> 144115188, e |-> -57, sticky |-> 1],
    div |-> [text |-> "1", m |-> 134217728, e |-> -27, sticky |-> 0]],
   [unit |-> "_pF", type |-> "Capacitance", kind |-> "scale",
    scale |-> [text |-> "1e-12", m |-> 147573952, e |-> -67, sticky |-> 1],
    div |-> [text |-> "1", m |-> 134217728, e |-> -27, sticky |-> 0]],
   [unit |-> "_Mohm", type |-> "Resistance", kind |-> "scale",
    scale |-> [text |-> "1e6", m |-> 256000000, e |-> -8, sticky |-> 0],
    div |-> [text |-> "1", m |-> 134217728, e |-> -27, sticky |-> 0]],
   [unit |-> "_kohm", type |-> "Resistance", kind |-> "scale",
    scale |-> [text |-> "1e3", m |-> 262144000, e |-> -18, sticky |-> 0],
    div |-> [text |-> "1", m |-> 134217728, e |-> -27, sticky |-> 0]],
   [unit |-> "_ohm", type |-> "Resistance", kind |-> "plain",
    scale |-> [text |-> "1", m |-> 134217728, e |-> -27, sticky |-> 0],
    div |-> [text |-> "1", m |-> 134217728, e |-> -27, sticky |-> 0]],
   [unit |-> "_mohm", type |-> "Resistance", kind |-> "scale",
    scale |-> [text |-> "1e-3", m |-> 137438953, e |-> -37, sticky |-> 1],
    div |-> [text |-> "1", m |-> 134217728, e |-> -27, sticky |-> 0]],
   [unit |-> "_S", type |-> "Conductance", kind |-> "plain",
    scale |-> [text |-> "1", m |-> 134217728, e |-> -27, sticky |-> 0],
    div |-> [text |-> "1", m |-> 134217728, e |-> -27, sticky |-> 0]],
   [unit |-> "_Bq", type |-> "RadioactiveActivity", kind |-> "plain",
    scale |-> [text |-> "1", m |-> 134217728, e |-> -27, sticky |-> 0],
    div |-> [text |-> "1", m |-> 134217728, e |-> -27, sticky |-> 0]],
   [unit |-> "_Ci", type |-> "RadioactiveActivity", kind |-> "scale",
    scale |-> [text |-> "3.7e10", m |-> 144531250, e |-> 8, sticky |-> 0],
    div |-> [text |-> "1", m |-> 134217728, e |-> -27, sticky |-> 0]],
   [unit |-> "_Gy", type |-> "AbsorbedDose", kind |-> "plain",
    scale |-> [text |-> "1", m |-> 134217728, e |-> -27, sticky |-> 0],
    div |-> [text |-> "1", m |-> 134217728, e |-> -27, sticky |-> 0]],
   [unit |-> "_Sv", type |-> "AbsorbedDose", kind |-> "plain",
    scale |-> [text |-> "1", m |-> 134217728, e |-> -27, sticky |-> 0],
    div |-> [text |-> "1", m |-> 134217728, e |-> -27, sticky |-> 0]],
   [unit |-> "_lm", type |-> "LuminousFlux", kind |-> "plain",
    scale |-> [text |-> "1", m |-> 134217728, e |-> -27, sticky |-> 0],
    div |-> [text |-> "1", m |-> 134217728, e |-> -27, sticky |-> 0]],
   [unit |-> "_lx", type |-> "Illuminance", kind |-> "plain",
    scale |-> [text |-> "1", m |-> 134217728, e |-> -27, sticky |-> 0],
    div |-> [text |-> "1", m |-> 134217728, e |-> -27, sticky |-> 0]]}

\* the table of user-defined literals of the README: category |-> units
Documented ==
  [Mass |-> {"_kg", "_g", "_mg", "_Da", "_u", "_tonne", "_lb", "_lbm", "_oz", "_slug"},
   Length |-> {"_m", "_km", "_cm", "_mm", "_in", "_ft", "_yd", "_mi", "_nmi", "_au", "_ly", "_pc", "_kpc", "_Mpc"},
   Time |-> {"_s", "_ms", "_us", "_min", "_hr", "_day", "_yr"},
   Energy |-> {"_J", "_kJ", "_eV", "_meV", "_MeV", "_GeV", "_cal", "_kcal", "_Wh", "_kWh", "_BTU"},
   Voltage |-> {"_MV", "_kV", "_V", "_mV", "_uV"},
   Current |-> {"_A", "_mA", "_uA", "_nA"},
   Charge |-> {"_C", "_mC", "_uC", "_nC", "_pC"},
   Resistance |-> {"_Mohm", "_kohm", "_ohm", "_mohm"},
   Capacitance |-> {"_F", "_mF", "_uF", "_nF", "_pF"},
   Inductance |-> {"_H", "_mH", "_uH", "_nH"},
   Pressure |-> {"_Pa", "_kPa", "_MPa", "_bar", "_atm", "_psi", "_torr", "_mmHg"},
   Power |-> {"_W", "_kW", "_MW", "_hp"},
   Frequency |-> {"_Hz", "_kHz", "_MHz", "_GHz"}]

Lit0_5 == [text |-> "0.5", m |-> 134217728, e |-> -28, sticky |-> 0]

Lit273_15 == [text |-> "273.15", m |-> 143209267, e |-> -19, sticky |-> 1]

Lit373_15 == [text |-> "373.15", m |-> 195638067, e |-> -19, sticky |-> 1]

Lit646_3 == [text |-> "646.3", m |-> 169423667, e |-> -18, sticky |-> 1]

Lit584_3 == [text |-> "584.3", m |-> 153170739, e |-> -18, sticky |-> 1]

Entry(name) == CHOOSE u \in Catalogue : u.unit = name

\* the number spelled in the source: num/den
Raw(num, den) == [num |-> num, den |-> den]

\* the integers spelled before a suffix: the small ones, and the larger ones
\* of the tests
IntRaws == {Raw(n, 1) : n \in (0..MaxRaw) \cup {70, 100, 200, 212, 300}}

FltRaws == IntRaws \cup {Raw(1, 10), Raw(1, 2), Raw(5, 2)}

\* the long double a floating literal denotes
LongDoubleOf(ld, raw) == WDiv(ld, WInt(ld, raw.num), WInt(ld, raw.den))

\* operator""_degF(unsigned long long v):
\* (static_cast<double>(v) - 32.0) * 5.0/9.0 + 273.15
degF_int(v) ==
  WAdd(UMantBits,
       WDiv(UMantBits,
            WMul(UMantBits,
                 WSub(UMantBits, WInt(UMantBits, v), WInt(UMantBits, 32)),
                 WInt(UMantBits, 5)),
            WInt(UMantBits, 9)),
       Double(Lit273_15))

\* operator""_degF(long double v):
\* static_cast<double>((v - 32.0L) * 5.0L/9.0L + 273.15L)
degF_flt(ld, v) ==
  WNarrow(UMantBits,
          WAdd(ld,
               WDiv(ld, WMul(ld, WSub(ld, v, WInt(ld, 32)), WInt(ld, 5)),
                    WInt(ld, 9)),
               WLit(ld, Lit273_15)))

\* the scale factor of a unit, a constant expression of type double
ScaleOf(u) ==
  IF u.kind = "ratio" THEN WDiv(UMantBits, Double(u.scale), Double(u.div))
  ELSE Double(u.scale)

\* operator""_<unit> that adds the offset of Celsius for every Temperature
literal_value_AllAffine(ld, u, form, raw) ==
  LET d == IF form = "int" THEN WInt(UMantBits, raw.num)
           ELSE WNarrow(UMantBits, LongDoubleOf(ld, raw))
  IN IF u.type = "Temperature" THEN WAdd(UMantBits, d, Double(Lit273_15))
     ELSE IF u.kind = "plain" THEN d
     ELSE WMul(UMantBits, d, ScaleOf(u))

\* the magnitude operator""_<unit> computes from the literal raw: form "int"
\* is the overload of unsigned long long, form "flt" that of long double
literal_value(ld, u, form, raw) ==
  LET d == IF form = "int" THEN WInt(UMantBits, raw.num)
           ELSE WNarrow(UMantBits, LongDoubleOf(ld, raw))
  IN IF u.kind = "plain" THEN d
     ELSE IF u.kind \in {"scale", "ratio"} THEN WMul(UMantBits, d, ScaleOf(u))
     ELSE IF u.kind = "degC" THEN WAdd(UMantBits, d, Double(Lit273_15))
     ELSE IF form = "int" THEN degF_int(raw.num)
     ELSE degF_flt(ld, LongDoubleOf(ld, raw))

\* a Quantity built by a unit literal, with the literal that built it
Literal(ld, name, form, raw) ==
  [unit |-> name, form |-> form, raw |-> raw,
   q |-> Quantity(literal_value(ld, Entry(name), form, raw),
                  Aliases[Entry(name).type])]

NoLiteral ==
  [unit |-> "none", form |-> "none", raw |-> Raw(0, 1),
   q |-> Quantity(W(0, 0, 0), Dimensions(0, 0, 0, 0, 0, 0, 0))]

\* the objects of namespace constants
ConstantObjects ==
  [k \in DOMAIN ConstantLiterals |->
     Quantity(Double(ConstantLiterals[k].lit), ConstantLiterals[k].dim)]

\* the operators of Quantity on the doubles of the unit literals
\* operator* that derives its dimension with DimSub
WQuantity_mul_Subtracts(x, rhs) ==
  Quantity(WMul(UMantBits, x.value, rhs.value), DimSub(x.dim, rhs.dim))

WQuantity_mul(x, rhs) ==
  Quantity(WMul(UMantBits, x.value, rhs.value), DimAdd(x.dim, rhs.dim))

WQuantity_div(x, rhs) ==
  Quantity(WDiv(UMantBits, x.value, rhs.value), DimSub(x.dim, rhs.dim))

WQuantity_add(x, rhs) == Quantity(WAdd(UMantBits, x.value, rhs.value), x.dim)

\* an operator- that adds the values
WQuantity_sub_Adds(x, rhs) == Quantity(WAdd(UMantBits, x.value, rhs.value), x.dim)

WQuantity_sub(x, rhs) == Quantity(WSub(UMantBits, x.value, rhs.value), x.dim)

Wscalar_mul_Quantity(s, q) == Quantity(WMul(UMantBits, s, q.value), q.dim)

Wsqrt(q) == Quantity(WSqrt(UMantBits, q.value), DimHalve(q.dim))

\* the literals that are operands of the formulas of the tests and the manual
FormulaLiterals ==
  {<<"_kg", "int", Raw(70, 1)>>, <<"_m", "int", Raw(10, 1)>>,
   <<"_s", "int", Raw(2, 1)>>, <<"_degC", "int", Raw(100, 1)>>,
   <<"_degC", "int", Raw(0, 1)>>, <<"_degC", "flt", Raw(1, 10)>>,
   <<"_degC", "int", Raw(37, 1)>>, <<"_degC", "int", Raw(36, 1)>>,
   <<"_K", "int", Raw(300, 1)>>, <<"_degF", "int", Raw(212, 1)>>,
   <<"_N", "int", Raw(100, 1)>>, <<"_J", "int", Raw(200, 1)>>,
   <<"_b", "int", Raw(1, 1)>>, <<"_V", "int", Raw(12, 1)>>,
   <<"_A", "int", Raw(3, 1)>>, <<"_kohm", "int", Raw(10, 1)>>,
   <<"_uF", "int", Raw(100, 1)>>, <<"_mH", "int", Raw(10, 1)>>,
   <<"_mol", "int", Raw(1, 1)>>}

\* the outcome of a formula over unit literals
Value(op, st, q) == [op |-> op, st |-> st, q |-> q]

NoValueYet == Value("none", "none", NoLiteral.q)

(***************************************************************************)
(* Outcome of evaluating one expression.                                   *)
(***************************************************************************)
Dimensionless == Dimensions(0, 0, 0, 0, 0, 0, 0)

NoQuantity == Quantity(NoValue, Dimensionless)

Result(op, st, n, q, errors, cmp) ==
  [op |-> op, st |-> st, n |-> n, q |-> q, errors |-> errors, cmp |-> cmp]

NoResult == Result("none", "none", 0, NoQuantity, {}, {})

Accepted(op, n, q) == Result(op, "ok", n, q, {}, {})

Compared(cmp) == Result("<=>", "ok", 0, NoQuantity, {}, cmp)

Rejected(op, st, errors) == Result(op, st, 0, NoQuantity, errors, {})

(***************************************************************************)
(* Entity component system: TypeRegistry, ComponentPool<T>, Registry.      *)
(***************************************************************************)
\* largest entity id assigned
MaxEntity == 2

\* largest number of assign calls of one program
MaxAssigns == 3

\* the component types of the program
Types == {"A", "B"}

Pool(sparse, entity_map, dense) ==
  [sparse |-> sparse, entity_map |-> entity_map, dense |-> dense]

\* TypeRegistry::counter, the static id of every get_id<T> (-1 before its
\* initialisation) and Registry::pools
World(counter_, ids_, pools_) ==
  [counter |-> counter_, ids |-> ids_, pools |-> pools_]

\* a get_id<T>() that takes the next value of the counter on every call
get_id_CountsEveryCall(w, T) ==
  [w EXCEPT !.ids[T] = w.counter, !.counter = w.counter + 1]

\* TypeRegistry::get_id<T>(): the world after the call; the id is .ids[T]
get_id(w, T) ==
  IF w.ids[T] # -1 THEN w
  ELSE [w EXCEPT !.ids[T] = w.counter, !.counter = w.counter + 1]

\* Registry::get_pool<T>(): the world after the call; the pool returned is
\* .pools[.ids[T]]
get_pool(w, T) ==
  LET w1 == get_id(w, T)
      id == w1.ids[T]
  IN IF id \in DOMAIN w1.pools THEN w1
     ELSE [w1 EXCEPT !.pools = [i \in DOMAIN w1.pools \cup {id} |->
                                  IF i = id THEN Pool(<<>>, <<>>, <<>>) ELSE w1.pools[i]]]

\* the pool of T in a world where get_pool<T> has been called
PoolOf(w, T) == w.pools[w.ids[T]]

\* ComponentPool::assign whose resize fills the new slots with 0
assign_ResizeZero(pool, entity, comp) ==
  LET n == Len(pool.sparse)
      resized == IF entity >= n
                 THEN pool.sparse \o [i \in 1..(entity + 1 - n) |-> 0]
                 ELSE pool.sparse
  IN Pool([resized EXCEPT ![entity + 1] = Len(pool.dense)],
          Append(pool.entity_map, entity),
          Append(pool.dense, comp))

\* ComponentPool::assign that overwrites the component of an entity the
\* pool contains and appends only for a new entity
assign_UpdatesInPlace(pool, entity, comp) ==
  IF entity < Len(pool.sparse) /\ pool.sparse[entity + 1] # -1
  THEN Pool(pool.sparse, pool.entity_map,
            [pool.dense EXCEPT ![pool.sparse[entity + 1] + 1] = comp])
  ELSE LET n == Len(pool.sparse)
           resized == IF entity >= n
                      THEN pool.sparse \o [i \in 1..(entity + 1 - n) |-> -1]
                      ELSE pool.sparse
       IN Pool([resized EXCEPT ![entity + 1] = Len(pool.dense)],
               Append(pool.entity_map, entity),
               Append(pool.dense, comp))

\* ComponentPool::assign that leaves sparse[entity] of a contained entity
\* at its first entry
assign_KeepsFirstIndex(pool, entity, comp) ==
  LET n == Len(pool.sparse)
      resized == IF entity >= n
                 THEN pool.sparse \o [i \in 1..(entity + 1 - n) |-> -1]
                 ELSE pool.sparse
  IN Pool(IF resized[entity + 1] # -1 THEN resized
          ELSE [resized EXCEPT ![entity + 1] = Len(pool.dense)],
          Append(pool.entity_map, entity),
          Append(pool.dense, comp))

\* ComponentPool::assign whose resize rebuilds sparse, every slot -1
assign_ResizeClears(pool, entity, comp) ==
  LET n == Len(pool.sparse)
      resized == IF entity >= n THEN [i \in 1..(entity + 1) |-> -1]
                 ELSE pool.sparse
  IN Pool([resized EXCEPT ![entity + 1] = Len(pool.dense)],
          Append(pool.entity_map, entity),
          Append(pool.dense, comp))

\* ComponentPool::assign(entity, comp) for entity >= 0
assign(pool, entity, comp) ==
  LET n == Len(pool.sparse)
      resized == IF entity >= n
                 THEN pool.sparse \o [i \in 1..(entity + 1 - n) |-> -1]
                 ELSE pool.sparse
  IN Pool([resized EXCEPT ![entity + 1] = Len(pool.dense)],
          Append(pool.entity_map, entity),
          Append(pool.dense, comp))

\* ComponentPool::contains(entity) for entity >= 0
contains(pool, entity) ==
  entity < Len(pool.sparse) /\ pool.sparse[entity + 1] # -1

\* ComponentPool::get(entity) for a contained entity
get(pool, entity) == pool.dense[pool.sparse[entity + 1] + 1]

size(pool) == Len(pool.dense)

entities(pool) == pool.entity_map

\* (get_pool<Components>().contains(entity) && ...): the world after the
\* calls of get_pool that are made, and the value of the fold
RECURSIVE all_contain(_, _, _, _)
all_contain(w, types, i, entity) ==
  IF i > Len(types) THEN [w |-> w, ok |-> TRUE]
  ELSE LET w1 == get_pool(w, types[i])
       IN IF contains(PoolOf(w1, types[i]), entity)
          THEN all_contain(w1, types, i + 1, entity)
          ELSE [w |-> w1, ok |-> FALSE]

\* func(get_pool<Components>().get(entity)...) for the callback "scale"
RECURSIVE scale_args(_, _, _, _)
scale_args(w, types, i, entity) ==
  IF i > Len(types) THEN w
  ELSE LET id == w.ids[types[i]]
           at == w.pools[id].sparse[entity + 1] + 1
       IN scale_args([w EXCEPT !.pools[id].dense[at] = 2 * @],
                     types, i + 1, entity)

\* the loop of Registry::view that ends at the first entity which is not in
\* every pool
RECURSIVE view_loop_StopsAtFirstMiss(_, _, _, _, _, _)
view_loop_StopsAtFirstMiss(w, types, func, leader, k, calls_) ==
  IF k > Len(leader) THEN [w |-> w, calls |-> calls_]
  ELSE LET entity == leader[k]
           c == all_contain(w, types, 1, entity)
           args == [i \in 1..Len(types) |-> get(PoolOf(c.w, types[i]), entity)]
       IN IF ~c.ok THEN [w |-> c.w, calls |-> calls_]
          ELSE view_loop_StopsAtFirstMiss(
                 IF func = "scale"
                 THEN scale_args(c.w, types, 1, entity) ELSE c.w,
                 types, func, leader, k + 1,
                 Append(calls_, [entity |-> entity, args |-> args]))

\* the loop of Registry::view that passes over an entity func has been
\* called for
RECURSIVE view_loop_OncePerEntity(_, _, _, _, _, _)
view_loop_OncePerEntity(w, types, func, leader, k, calls_) ==
  IF k > Len(leader) THEN [w |-> w, calls |-> calls_]
  ELSE LET entity == leader[k]
           c == all_contain(w, types, 1, entity)
           args == [i \in 1..Len(types) |-> get(PoolOf(c.w, types[i]), entity)]
       IN IF ~c.ok \/ \E j \in 1..Len(calls_) : calls_[j].entity = entity
          THEN view_loop_OncePerEntity(c.w, types, func, leader, k + 1, calls_)
          ELSE view_loop_OncePerEntity(
                 IF func = "scale"
                 THEN scale_args(c.w, types, 1, entity) ELSE c.w,
                 types, func, leader, k + 1,
                 Append(calls_, [entity |-> entity, args |-> args]))

\* the loop of Registry::view over leader_pool.entities() from position k
\* on; calls is the sequence of the calls of func made so far
RECURSIVE view_loop(_, _, _, _, _, _)
view_loop(w, types, func, leader, k, calls_) ==
  IF k > Len(leader) THEN [w |-> w, calls |-> calls_]
  ELSE LET entity == leader[k]
           c == all_contain(w, types, 1, entity)
           args == [i \in 1..Len(types) |-> get(PoolOf(c.w, types[i]), entity)]
       IN IF ~c.ok THEN view_loop(c.w, types, func, leader, k + 1, calls_)
          ELSE view_loop(IF func = "scale"
                         THEN scale_args(c.w, types, 1, entity) ELSE c.w,
                         types, func, leader, k + 1,
                         Append(calls_, [entity |-> entity, args |-> args]))

\* a Registry::view that requests every listed pool and iterates the
\* entities() of the one with the fewest entries
view_SmallestPool(w, types, func) ==
  LET RECURSIVE Requested(_, _)
      Requested(w0, i) == IF i > Len(types) THEN w0
                          ELSE Requested(get_pool(w0, types[i]), i + 1)
      w1 == Requested(w, 1)
      least == CHOOSE i \in 1..Len(types) :
                 \A j \in 1..Len(types) :
                   size(PoolOf(w1, types[i])) <= size(PoolOf(w1, types[j]))
      leader == entities(PoolOf(w1, types[least]))
      res == view_loop(w1, types, func, leader, 1, <<>>)
  IN [w |-> res.w, calls |-> res.calls, iterated |-> leader]

\* Registry::view<Components...>(func): the world and the calls of func
\* after the loop, and the entities() the loop iterated
view(w, types, func) ==
  LET w1 == get_pool(w, types[1])
      leader == entities(PoolOf(w1, types[1]))
      res == view_loop(w1, types, func, leader, 1, <<>>)
  IN [w |-> res.w, calls |-> res.calls, iterated |-> leader]

NoView == [types |-> <<>>, func |-> "none", iterated |-> <<>>]

\* a program that has not touched the entity component system
EcsIdle ==
  /\ counter = 0
  /\ ids = [T \in Types |-> -1]
  /\ pools = <<>>
  /\ assigns = [T \in Types |-> <<>>]
  /\ calls = <<>>
  /\ viewed = NoView
  /\ ub = FALSE

(***************************************************************************)
(* Operands.                                                               *)
(***************************************************************************)
Mass == Dimensions(1, 0, 0, 0, 0, 0, 0)
Length == Dimensions(0, 1, 0, 0, 0, 0, 0)
Time == Dimensions(0, 0, 1, 0, 0, 0, 0)
Area == Dimensions(0, 2, 0, 0, 0, 0, 0)
Volume == Dimensions(0, 3, 0, 0, 0, 0, 0)
Velocity == Dimensions(0, 1, -1, 0, 0, 0, 0)
Acceleration == Dimensions(0, 1, -2, 0, 0, 0, 0)
Force == Dimensions(1, 1, -2, 0, 0, 0, 0)
Energy == Dimensions(1, 2, -2, 0, 0, 0, 0)
Capacitance == Dimensions(-1, -2, 4, 2, 0, 0, 0)
MolarEntropy == Dimensions(1, 2, -2, 0, -1, -1, 0)

NamedDims ==
  {Mass, Length, Time, Area, Volume, Velocity, Acceleration, Force, Energy,
   Capacitance, MolarEntropy}

\* the dimension vectors of the unit tests of the dimension engine
TestDims ==
  {Dimensions(1, 2, 3, 4, 5, 6, 7), Dimensions(7, 6, 5, 4, 3, 2, 1),
   Dimensions(1, 2, -3, 4, -5, 6, -7), Dimensions(3, -1, 2, 0, 1, -2, 0),
   Dimensions(2, 4, -6, 8, -10, 12, -14), Dimensions(1, 1, 1, 1, 1, 1, 1),
   Dimensions(1, 2, -3, 0, 0, 0, 0), Dimensions(4, -5, 6, 0, 0, 0, 0)}

\* one base dimension raised to an exponent of -MaxExp..MaxExp
AxisDims ==
  UNION {{Dimensions(e, 0, 0, 0, 0, 0, 0), Dimensions(0, e, 0, 0, 0, 0, 0),
          Dimensions(0, 0, e, 0, 0, 0, 0), Dimensions(0, 0, 0, e, 0, 0, 0),
          Dimensions(0, 0, 0, 0, e, 0, 0), Dimensions(0, 0, 0, 0, 0, e, 0),
          Dimensions(0, 0, 0, 0, 0, 0, e)} : e \in (0 - MaxExp)..MaxExp}

DimInputs == AxisDims \cup NamedDims \cup TestDims

Two == Fin(0, 2 * Pow2(FracBits))

Half == Fin(0, Pow2(FracBits - 1))

PowExponents == (0 - MaxPow)..MaxPow

\* every pair of magnitudes, on operands of two fixed pairs of dimensions
NumInit ==
  /\ a \in {Quantity(v, D) : v \in Doubles, D \in {Area, Velocity}}
  /\ b \in {Quantity(v, IF a.dim = Area THEN Area ELSE Time) : v \in Doubles}

\* every pair of dimension vectors, on operands of magnitudes 2.0 and 0.5
DimInit ==
  /\ a \in {Quantity(Two, D) : D \in DimInputs}
  /\ b \in {Quantity(Half, D) : D \in DimInputs}

\* a program that evaluates an expression over two operands
ExprInit ==
  /\ prog = "expr"
  /\ NumInit \/ DimInit
  /\ r = NoResult
  /\ r2 = NoResult
  /\ os = <<>>
  /\ ldbits = 0
  /\ lit1 = NoLiteral /\ lit2 = NoLiteral /\ lit3 = NoLiteral
  /\ val = NoValueYet
  /\ EcsIdle

\* a program that evaluates a formula over unit literals and constants
UnitInit ==
  /\ prog = "units"
  /\ ldbits \in LongDoubleFormats
  /\ lit1 = NoLiteral /\ lit2 = NoLiteral /\ lit3 = NoLiteral
  /\ val = NoValueYet
  /\ a = NoQuantity /\ b = NoQuantity
  /\ r = NoResult /\ r2 = NoResult
  /\ os = <<>>
  /\ EcsIdle

\* a program that fills the pools of a Registry and then runs a view
EcsInit ==
  /\ prog = "ecs"
  /\ EcsIdle
  /\ a = NoQuantity /\ b = NoQuantity
  /\ r = NoResult /\ r2 = NoResult
  /\ os = <<>>
  /\ ldbits = 0
  /\ lit1 = NoLiteral /\ lit2 = NoLiteral /\ lit3 = NoLiteral
  /\ val = NoValueYet

Init ==
  /\ constants = ConstantObjects
  /\ ExprInit \/ UnitInit \/ EcsInit

(***************************************************************************)
(* One action per operator or math function, applied to the operands a, b. *)
(***************************************************************************)
Mul ==
  /\ prog = "expr"
  /\ r.op = "none"
  /\ r' = Accepted("*", 0, Quantity_mul(a, b))
  /\ UNCHANGED <<a, b, r2, os, outside>>

Div ==
  /\ prog = "expr"
  /\ r.op = "none"
  /\ r' = Accepted("/", 0, Quantity_div(a, b))
  /\ UNCHANGED <<a, b, r2, os, outside>>

Add ==
  /\ prog = "expr"
  /\ r.op = "none"
  /\ r' = IF SameQuantityType(a, b) THEN Accepted("+", 0, Quantity_add(a, b))
          ELSE Rejected("+", "DimensionMismatch", {})
  /\ UNCHANGED <<a, b, r2, os, outside>>

Sub ==
  /\ prog = "expr"
  /\ r.op = "none"
  /\ r' = IF SameQuantityType(a, b) THEN Accepted("-", 0, Quantity_sub(a, b))
          ELSE Rejected("-", "DimensionMismatch", {})
  /\ UNCHANGED <<a, b, r2, os, outside>>

Compare ==
  /\ prog = "expr"
  /\ r.op = "none"
  /\ r' = IF SameQuantityType(a, b) THEN Compared(Quantity_cmp(a, b))
          ELSE Rejected("<=>", "DimensionMismatch", {})
  /\ UNCHANGED <<a, b, r2, os, outside>>

\* -a as a member that negates the operand in place
Negate_InPlace ==
  /\ prog = "expr"
  /\ r.op = "none"
  /\ a' = Quantity_neg(a)
  /\ r' = Accepted("neg", 0, a')
  /\ UNCHANGED <<b, r2, os, outside>>

\* -a
Negate ==
  /\ prog = "expr"
  /\ r.op = "none"
  /\ r' = Accepted("neg", 0, Quantity_neg(a))
  /\ UNCHANGED <<a, b, r2, os, outside>>

\* a * s, the scalar s being the magnitude of b
MulScalar ==
  /\ prog = "expr"
  /\ r.op = "none"
  /\ r' = Accepted("q*s", 0, Quantity_mul_scalar(a, b.value))
  /\ UNCHANGED <<a, b, r2, os, outside>>

\* s * a
ScalarMul ==
  /\ prog = "expr"
  /\ r.op = "none"
  /\ r' = Accepted("s*q", 0, scalar_mul_Quantity(b.value, a))
  /\ UNCHANGED <<a, b, r2, os, outside>>

\* a / s
DivScalar ==
  /\ prog = "expr"
  /\ r.op = "none"
  /\ r' = Accepted("q/s", 0, Quantity_div_scalar(a, b.value))
  /\ UNCHANGED <<a, b, r2, os, outside>>

Pow ==
  /\ prog = "expr"
  /\ r.op = "none"
  /\ \E N \in PowExponents : \E q \in pow(N, a) : r' = Accepted("pow", N, q)
  /\ UNCHANGED <<a, b, r2, os, outside>>

Sqrt ==
  /\ prog = "expr"
  /\ r.op = "none"
  /\ r' = IF HalveAsserts(a.dim) = {} THEN Accepted("sqrt", 0, sqrt(a))
          ELSE Rejected("sqrt", "OddExponentRoot", HalveAsserts(a.dim))
  /\ UNCHANGED <<a, b, r2, os, outside>>

Abs ==
  /\ prog = "expr"
  /\ r.op = "none"
  /\ r' = Accepted("abs", 0, abs(a))
  /\ UNCHANGED <<a, b, r2, os, outside>>

(***************************************************************************)
(* A second operator applied to the result r of the first.                 *)
(***************************************************************************)
\* sqrt(pow<N>(a)), sqrt(a * b)
ThenSqrt ==
  /\ prog = "expr"
  /\ r.op \in {"pow", "*"} /\ r.st = "ok" /\ r2.op = "none"
  /\ r2' = IF HalveAsserts(r.q.dim) = {} THEN Accepted("sqrt", 0, sqrt(r.q))
           ELSE Rejected("sqrt", "OddExponentRoot", HalveAsserts(r.q.dim))
  /\ UNCHANGED <<a, b, r, os, outside>>

\* (a * b) / b
ThenDiv ==
  /\ prog = "expr"
  /\ r.op = "*" /\ r.st = "ok" /\ r2.op = "none"
  /\ r2' = Accepted("/", 0, Quantity_div(r.q, b))
  /\ UNCHANGED <<a, b, r, os, outside>>

\* (a * b) * a
ThenMul ==
  /\ prog = "expr"
  /\ r.op = "*" /\ r.st = "ok" /\ r2.op = "none"
  /\ r2' = Accepted("*", 0, Quantity_mul(r.q, a))
  /\ UNCHANGED <<a, b, r, os, outside>>

\* -(-a)
ThenNegate ==
  /\ prog = "expr"
  /\ r.op = "neg" /\ r.st = "ok" /\ r2.op = "none"
  /\ r2' = Accepted("neg", 0, Quantity_neg(r.q))
  /\ UNCHANGED <<a, b, r, os, outside>>

\* os << a
StreamOut ==
  /\ prog = "expr"
  /\ r.op = "none"
  /\ \E text \in ostream_Quantity(a) : os' = os \o text
  /\ r' = Result("<<", "ok", 0, NoQuantity, {}, {})
  /\ UNCHANGED <<a, b, r2, outside>>

(***************************************************************************)
(* Unit literals and the formulas over them.                               *)
(***************************************************************************)
\* the first literal of the program: any unit, either overload
FirstLiteral ==
  /\ prog = "units"
  /\ lit1 = NoLiteral
  /\ val.op = "none"
  /\ \E name \in {u.unit : u \in Catalogue}, form \in {"int", "flt"} :
       \E raw \in (IF form = "int" THEN IntRaws ELSE FltRaws) :
         lit1' = Literal(ldbits, name, form, raw)
  /\ UNCHANGED <<exprVars, ecsVars, prog, constants, ldbits, lit2, lit3, val>>

\* a further operand of a formula
NextLiteral ==
  /\ prog = "units"
  /\ <<lit1.unit, lit1.form, lit1.raw>> \in FormulaLiterals
  /\ lit3 = NoLiteral
  /\ val.op = "none"
  /\ \E f \in FormulaLiterals :
       IF lit2 = NoLiteral
       THEN lit2' = Literal(ldbits, f[1], f[2], f[3]) /\ lit3' = lit3
       ELSE lit3' = Literal(ldbits, f[1], f[2], f[3]) /\ lit2' = lit2
  /\ UNCHANGED <<exprVars, ecsVars, prog, constants, ldbits, lit1, val>>

\* lit1 * lit2
LitMul ==
  /\ prog = "units"
  /\ lit2 # NoLiteral /\ lit3 = NoLiteral /\ val.op = "none"
  /\ val' = Value("*", "ok", WQuantity_mul(lit1.q, lit2.q))
  /\ UNCHANGED <<exprVars, ecsVars, prog, constants, ldbits, lit1, lit2, lit3>>

\* lit1 / lit2
LitDiv ==
  /\ prog = "units"
  /\ lit2 # NoLiteral /\ lit3 = NoLiteral /\ val.op = "none"
  /\ val' = Value("/", "ok", WQuantity_div(lit1.q, lit2.q))
  /\ UNCHANGED <<exprVars, ecsVars, prog, constants, ldbits, lit1, lit2, lit3>>

\* lit1 + lit2
LitAdd ==
  /\ prog = "units"
  /\ lit2 # NoLiteral /\ lit3 = NoLiteral /\ val.op = "none"
  /\ val' = IF SameQuantityType(lit1.q, lit2.q)
            THEN Value("+", "ok", WQuantity_add(lit1.q, lit2.q))
            ELSE Value("+", "DimensionMismatch", NoLiteral.q)
  /\ UNCHANGED <<exprVars, ecsVars, prog, constants, ldbits, lit1, lit2, lit3>>

\* lit1 - lit2
LitSub ==
  /\ prog = "units"
  /\ lit2 # NoLiteral /\ lit3 = NoLiteral /\ val.op = "none"
  /\ val' = IF SameQuantityType(lit1.q, lit2.q)
            THEN Value("-", "ok", WQuantity_sub(lit1.q, lit2.q))
            ELSE Value("-", "DimensionMismatch", NoLiteral.q)
  /\ UNCHANGED <<exprVars, ecsVars, prog, constants, ldbits, lit1, lit2, lit3>>

\* sqrt(lit1 * lit2)
SqrtOfProduct ==
  /\ prog = "units"
  /\ lit2 # NoLiteral /\ lit3 = NoLiteral /\ val.op = "none"
  /\ LET lc == WQuantity_mul(lit1.q, lit2.q)
     IN val' = IF HalveAsserts(lc.dim) = {} THEN Value("sqrt(*)", "ok", Wsqrt(lc))
               ELSE Value("sqrt(*)", "OddExponentRoot", NoLiteral.q)
  /\ UNCHANGED <<exprVars, ecsVars, prog, constants, ldbits, lit1, lit2, lit3>>

\* n * constants::R * T, with n = lit1 and T = lit2
GasLaw ==
  /\ prog = "units"
  /\ lit2 # NoLiteral /\ lit3 = NoLiteral /\ val.op = "none"
  /\ val' = Value("n*R*T", "ok",
                  WQuantity_mul(WQuantity_mul(lit1.q, constants.R), lit2.q))
  /\ UNCHANGED <<exprVars, ecsVars, prog, constants, ldbits, lit1, lit2, lit3>>

\* constants::m_e * constants::c * constants::c
RestMassEnergy ==
  /\ prog = "units"
  /\ lit1 = NoLiteral /\ val.op = "none"
  /\ val' = Value("m*c*c", "ok",
                  WQuantity_mul(WQuantity_mul(constants.m_e, constants.c),
                                constants.c))
  /\ UNCHANGED <<exprVars, ecsVars, prog, constants, ldbits, lit1, lit2, lit3>>

\* v = lit2 / lit3; 0.5 * lit1 * v * v
KineticEnergy ==
  /\ prog = "units"
  /\ lit3 # NoLiteral /\ val.op = "none"
  /\ LET v == WQuantity_div(lit2.q, lit3.q)
     IN val' = Value("0.5*m*v*v", "ok",
                     WQuantity_mul(
                       WQuantity_mul(Wscalar_mul_Quantity(Double(Lit0_5), lit1.q), v),
                       v))
  /\ UNCHANGED <<exprVars, ecsVars, prog, constants, ldbits, lit1, lit2, lit3>>

(***************************************************************************)
(* The entity component system.                                            *)
(***************************************************************************)
\* the number of assign calls made so far
Assigned ==
  LET RECURSIVE Sum(_)
      Sum(S) == IF S = {} THEN 0
                ELSE LET i == CHOOSE j \in S : TRUE
                     IN size(pools[i]) + Sum(S \ {i})
  IN Sum(DOMAIN pools)

\* registry.get_pool<T>()
GetPool ==
  /\ prog = "ecs"
  /\ ~ub /\ viewed = NoView
  /\ \E T \in Types :
       LET w == get_pool(World(counter, ids, pools), T)
       IN /\ w.pools # pools
          /\ counter' = w.counter /\ ids' = w.ids /\ pools' = w.pools
  /\ UNCHANGED <<exprVars, prog, constants, unitVars, assigns, calls,
                 viewed, ub>>

\* registry.get_pool<T>().assign(entity, comp).  sparse[entity] of a negative
\* entity is a write outside the array, undefined behaviour: the program
\* stops at the write, or the write lands outside the array and the two
\* push_back follow
Assign ==
  /\ prog = "ecs"
  /\ ~ub /\ viewed = NoView
  /\ Assigned < MaxAssigns
  /\ \E T \in Types, entity \in -1..MaxEntity, comp \in {10, 20} :
       LET w == get_pool(World(counter, ids, pools), T)
           id == w.ids[T]
           pool == w.pools[id]
       IN /\ counter' = w.counter /\ ids' = w.ids
          /\ assigns' = [assigns EXCEPT
                          ![T] = Append(@, [entity |-> entity, comp |-> comp])]
          /\ IF entity < 0
             THEN /\ pools' \in
                       {w.pools,
                        [w.pools EXCEPT
                           ![id] = Pool(pool.sparse,
                                        Append(pool.entity_map, entity),
                                        Append(pool.dense, comp))]}
                  /\ ub' = TRUE
             ELSE /\ pools' = [w.pools EXCEPT
                                ![id] = assign(pool, entity, comp)]
                  /\ ub' = ub
  /\ UNCHANGED <<exprVars, prog, constants, unitVars, calls, viewed>>

\* registry.get_pool<T>().contains(entity).  For a negative entity
\* entity < (int)sparse.size() holds and sparse[entity] is a read outside
\* the array, undefined behaviour; otherwise nothing but get_pool changes
\* the state
Contains ==
  /\ prog = "ecs"
  /\ ~ub /\ viewed = NoView
  /\ \E T \in Types, entity \in -1..MaxEntity :
       LET w == get_pool(World(counter, ids, pools), T)
       IN /\ counter' = w.counter /\ ids' = w.ids /\ pools' = w.pools
          /\ ub' = (entity < 0)
  /\ UNCHANGED <<exprVars, prog, constants, unitVars, assigns, calls, viewed>>

\* registry.view<Components...>(func), for a func that reads its arguments
\* ("count") or doubles each of them ("scale")
View ==
  /\ prog = "ecs"
  /\ ~ub /\ viewed = NoView
  /\ \E types \in {<<"A">>, <<"B">>, <<"A", "B">>, <<"B", "A">>},
        func \in {"count", "scale"} :
       LET res == view(World(counter, ids, pools), types, func)
       IN /\ counter' = res.w.counter /\ ids' = res.w.ids
          /\ pools' = res.w.pools
          /\ calls' = res.calls
          /\ viewed' = [types |-> types, func |-> func,
                        iterated |-> res.iterated]
  /\ UNCHANGED <<exprVars, prog, constants, unitVars, assigns, ub>>

Next ==
  \/ Mul \/ Div \/ Add \/ Sub \/ Compare \/ Negate
  \/ MulScalar \/ ScalarMul \/ DivScalar \/ Pow \/ Sqrt \/ Abs
  \/ ThenSqrt \/ ThenDiv \/ ThenMul \/ ThenNegate
  \/ StreamOut
  \/ FirstLiteral \/ NextLiteral \/ LitMul \/ LitDiv \/ LitAdd \/ LitSub
  \/ SqrtOfProduct \/ GasLaw \/ RestMassEnergy \/ KineticEnergy
  \/ GetPool \/ Assign \/ Contains \/ View

Spec == Init /\ [][Next]_vars

(***************************************************************************)
(* Properties.                                                             *)
(***************************************************************************)
SlotMessage(s) == "sqrt: " \o s \o " exponent must be even"

\* C1: a * b has magnitude value(a) * value(b) and a dimension vector that is,
\* in each of the seven slots separately, the sum of the operands' exponents.
C1_MulAddsDimensions ==
  /\ r.op = "*" =>
       /\ r.st = "ok"
       /\ r.q.value = FMul(a.value, b.value)
       /\ \A s \in Slots : r.q.dim[s] = a.dim[s] + b.dim[s]
  /\ r2.op = "*" =>
       /\ r2.q.value = FMul(r.q.value, a.value)
       /\ \A s \in Slots : r2.q.dim[s] = r.q.dim[s] + a.dim[s]

C1_Witness ==
  /\ r.op = "*"
  /\ a.dim = Dimensions(1, 2, 3, 4, 5, 6, 7)
  /\ b.dim = Dimensions(7, 6, 5, 4, 3, 2, 1)
  /\ r.q.dim = Dimensions(8, 8, 8, 8, 8, 8, 8)

\* C2: a / b has magnitude value(a) / value(b) and a dimension vector that is,
\* in each of the seven slots, the left exponent minus the right exponent.
C2_DivSubtractsDimensions ==
  /\ r.op = "/" =>
       /\ r.st = "ok"
       /\ r.q.value = FDiv(a.value, b.value)
       /\ \A s \in Slots : r.q.dim[s] = a.dim[s] - b.dim[s]
  /\ r2.op = "/" =>
       /\ r2.q.value = FDiv(r.q.value, b.value)
       /\ \A s \in Slots : r2.q.dim[s] = r.q.dim[s] - b.dim[s]

C2_Witness ==
  /\ r.op = "/"
  /\ a.dim = Dimensions(7, 6, 5, 4, 3, 2, 1)
  /\ b.dim = Dimensions(1, 2, 3, 4, 5, 6, 7)
  /\ r.q.dim = Dimensions(6, 4, 2, 0, -2, -4, -6)

\* C3: +, - and the comparisons are accepted exactly when the operands'
\* dimension vectors agree in all seven slots; otherwise the operation is
\* rejected as DimensionMismatch and yields no value; an accepted + or - has
\* the operands' dimension vector.
C3_SameDimensionOnly ==
  r.op \in {"+", "-", "<=>"} =>
    /\ (r.st = "ok") <=> (\A s \in Slots : a.dim[s] = b.dim[s])
    /\ r.st # "ok" =>
         r.st = "DimensionMismatch" /\ r.q = NoQuantity /\ r.cmp = {}
    /\ (r.st = "ok" /\ r.op \in {"+", "-"}) =>
         r.q.value # NoValue /\ r.q.dim = a.dim /\ r.q.dim = b.dim
    /\ (r.st = "ok" /\ r.op = "<=>") => r.cmp # {}

C3_Witness ==
  /\ r.op = "+" /\ a.dim = Length /\ b.dim = Time
  /\ r.st = "DimensionMismatch" /\ r.q = NoQuantity

\* C4: halve succeeds exactly when all seven exponents are even, and then
\* every result exponent is half the input exponent (negative ones too); when
\* some exponent is odd, of either sign, the operation fails, the failure
\* names every odd slot and only those, and no result is produced.
C4_HalveNeedsEven ==
  /\ r.op = "sqrt" =>
       /\ (r.st = "ok") <=> (\A s \in Slots : a.dim[s] % 2 = 0)
       /\ r.st = "ok" => \A s \in Slots : 2 * r.q.dim[s] = a.dim[s]
       /\ r.st # "ok" =>
            /\ r.st = "OddExponentRoot" /\ r.q = NoQuantity
            /\ \A s \in Slots :
                 (a.dim[s] % 2 = 1) <=> (SlotMessage(s) \in r.errors)
  /\ r2.op = "sqrt" =>
       /\ (r2.st = "ok") <=> (\A s \in Slots : r.q.dim[s] % 2 = 0)
       /\ r2.st = "ok" => \A s \in Slots : 2 * r2.q.dim[s] = r.q.dim[s]
       /\ r2.st # "ok" =>
            /\ r2.st = "OddExponentRoot" /\ r2.q = NoQuantity
            /\ \A s \in Slots :
                 (r.q.dim[s] % 2 = 1) <=> (SlotMessage(s) \in r2.errors)

C4_Witness ==
  /\ r.op = "sqrt" /\ a.dim = Dimensions(1, 2, -3, 4, -5, 6, -7)
  /\ r.st = "OddExponentRoot"
  /\ r.errors = {SlotMessage("mass"), SlotMessage("time"),
                 SlotMessage("temp"), SlotMessage("luminosity")}

\* C5: scale(d, n) multiplies each of the seven exponents by n, for n of any
\* sign: n = 1 gives d, n = 0 the dimensionless vector, n = -1 the negation.
C5_ScaleMultipliesExponents ==
  r.op = "pow" =>
    /\ \A s \in Slots : r.q.dim[s] = a.dim[s] * r.n
    /\ r.n = 1 => r.q.dim = a.dim
    /\ r.n = 0 => r.q.dim = Dimensionless
    /\ r.n = -1 => \A s \in Slots : r.q.dim[s] = 0 - a.dim[s]

C5_Witness ==
  /\ r.op = "pow" /\ r.n = -1 /\ a.dim = Dimensions(1, 2, -3, 4, -5, 6, -7)
  /\ r.q.dim = Dimensions(-1, -2, 3, -4, 5, -6, 7)

\* the exact power x^N of a finite non-zero x, N # 0, as PowNum / PowDen units
PowNum(x, N) == IF N > 0 THEN x.n ^ N ELSE Pow2(FracBits * (1 - N))

PowDen(x, N) == IF N > 0 THEN Pow2(FracBits * (N - 1)) ELSE x.n ^ (0 - N)

\* y is num/den when that is a double, and else the double next below or next
\* above it (infinity above the largest finite double)
Bracket(y, num, den) ==
  LET fl == num \div den
      cl == (num + den - 1) \div den
  IN IF IsInf(y) THEN cl > MaxFin
     ELSE /\ IsFinite(y)
          /\ \A d \in PosFin \cup {0} : (d > y.n => d > fl) /\ (d < y.n => d < cl)

\* x * x is computed without rounding, overflow or underflow
SquareExact(x) ==
  /\ (x.n * x.n) % Pow2(FracBits) = 0
  /\ (x.n * x.n) \div Pow2(FracBits) \in PosFin \cup {0}

CubeExact(x) ==
  /\ (x.n * x.n * x.n) % Pow2(2 * FracBits) = 0
  /\ (x.n * x.n * x.n) \div Pow2(2 * FracBits) \in PosFin \cup {0}

\* no double lies strictly between x and y
Adjacent(x, y) ==
  \/ x = y
  \/ /\ ~IsNaN(x) /\ ~IsNaN(y)
     /\ \A d \in Doubles : ~(FCmp(x, d) = "less" /\ FCmp(d, y) = "less")
     /\ \A d \in Doubles : ~(FCmp(y, d) = "less" /\ FCmp(d, x) = "less")

\* C6 (as stated): pow<n>(q) has dimension scale(dim(q), n), and pow<2>(q),
\* pow<3>(q) equal q*q and q*q*q in magnitude and dimension.
C6_PowEqualsProducts ==
  r.op = "pow" =>
    /\ \A s \in Slots : r.q.dim[s] = a.dim[s] * r.n
    /\ r.n = 2 => r.q = Quantity_mul(a, a)
    /\ r.n = 3 => r.q = Quantity_mul(Quantity_mul(a, a), a)

\* C6 (amended): pow<n>(q) has dimension scale(dim(q), n); its magnitude is
\* value(q)^n when that is a double and else the double next below or above
\* it; pow<-1> of Velocity(2.0) is 0.5 of dimension (0,-1,1,0,0,0,0);
\* pow<2>(q), pow<3>(q) have the dimensions of q*q, q*q*q, and their
\* magnitudes when the exact square, cube is a double; the magnitudes of
\* pow<2>(q) and q*q are never more than one double apart.
C6_PowScalesAndRounds ==
  r.op = "pow" =>
    /\ r.st = "ok"
    /\ \A s \in Slots : r.q.dim[s] = a.dim[s] * r.n
    /\ (IsFinite(a.value) /\ ~IsZero(a.value) /\ r.n # 0) =>
         /\ Bracket(r.q.value, PowNum(a.value, r.n), PowDen(a.value, r.n))
         /\ r.q.value.sg = (IF a.value.sg = 1 /\ r.n % 2 = 1 THEN 1 ELSE 0)
    /\ (r.n = -1 /\ a = Quantity(Two, Velocity)) =>
         r.q = Quantity(Half, Dimensions(0, -1, 1, 0, 0, 0, 0))
    /\ r.n = 2 =>
         /\ r.q.dim = Quantity_mul(a, a).dim
         /\ Adjacent(r.q.value, Quantity_mul(a, a).value)
         /\ (~IsFinite(a.value) \/ SquareExact(a.value)) =>
              r.q.value = Quantity_mul(a, a).value
    /\ r.n = 3 =>
         /\ r.q.dim = Quantity_mul(Quantity_mul(a, a), a).dim
         /\ (~IsFinite(a.value) \/ CubeExact(a.value)) =>
              r.q.value = Quantity_mul(Quantity_mul(a, a), a).value

C6_Witness ==
  /\ r.op = "pow" /\ r.n = -1 /\ a = Quantity(Two, Velocity)
  /\ r.q = Quantity(Half, Dimensions(0, -1, 1, 0, 0, 0, 0))

\* C7: pow<0>(x) is dimensionless with magnitude exactly 1, whatever the
\* magnitude (zero, negative, infinite, NaN) and the dimension of x.
C7_PowZeroIsOne ==
  (r.op = "pow" /\ r.n = 0) =>
    /\ r.st = "ok"
    /\ r.q.value = Fin(0, Pow2(FracBits))
    /\ \A s \in Slots : r.q.dim[s] = 0

C7_Witness ==
  /\ r.op = "pow" /\ r.n = 0 /\ a = Quantity(Fin(1, 0), Velocity)
  /\ r.q = Quantity(One, Dimensionless)

\* x is finite and not subnormal
IsNormal(x) == IsFinite(x) /\ x.n >= Pow2(MantBits - 1)

ProductExact(x, y) ==
  /\ (x.n * y.n) % Pow2(FracBits) = 0
  /\ (x.n * y.n) \div Pow2(FracBits) \in PosFin \cup {0}

\* finite x, y have the same sign and |x - y| <= 3 * 2^-MantBits * |y|
WithinTolerance(x, y) ==
  /\ x.sg = y.sg
  /\ (IF x.n >= y.n THEN x.n - y.n ELSE y.n - x.n) * Pow2(MantBits) <= 3 * y.n

\* C9 (as stated): subtract(add(d1, d2), d2) = d1, add(d, zero) = d,
\* subtract(d, d) = zero, and for non-zero b, (a * b) / b has the dimension
\* and the magnitude of a.
C9_MulThenDivRestores ==
  /\ (r.op = "*" /\ r2.op = "/") =>
       /\ r2.q.dim = a.dim
       /\ (IsFinite(a.value) /\ IsFinite(b.value) /\ ~IsZero(b.value)) =>
            r2.q.value = a.value
  /\ (r.op = "*" /\ b.dim = Dimensionless) => r.q.dim = a.dim
  /\ (r.op = "/" /\ a.dim = b.dim) => r.q.dim = Dimensionless

\* C9 (amended): subtract(add(d1, d2), d2) = d1, add(d, zero) = d,
\* subtract(d, d) = zero, and for finite non-zero b, (a * b) / b has exactly
\* dim(a); its magnitude is that of a when a * b is computed exactly, and is
\* within relative error 3 * 2^-MantBits of it when a and a * b are finite
\* and not subnormal and the quotient does not overflow.
C9_MulThenDivRestoresDim ==
  /\ (r.op = "*" /\ r2.op = "/") =>
       /\ \A s \in Slots : r2.q.dim[s] = a.dim[s]
       /\ (IsFinite(a.value) /\ IsFinite(b.value) /\ ~IsZero(b.value)) =>
            /\ ProductExact(a.value, b.value) => r2.q.value = a.value
            /\ (IsNormal(a.value) /\ IsNormal(r.q.value)
                  /\ IsFinite(r2.q.value)) =>
                 WithinTolerance(r2.q.value, a.value)
  /\ (r.op = "*" /\ b.dim = Dimensionless) =>
       \A s \in Slots : r.q.dim[s] = a.dim[s]
  /\ (r.op = "/" /\ a.dim = b.dim) => \A s \in Slots : r.q.dim[s] = 0

C9_Witness ==
  /\ r.op = "*" /\ r2.op = "/"
  /\ a = Quantity(Two, Dimensions(1, 2, -3, 0, 0, 0, 0))
  /\ b = Quantity(Half, Dimensions(4, -5, 6, 0, 0, 0, 0))
  /\ r.q.dim = Dimensions(5, -3, 3, 0, 0, 0, 0)
  /\ r2.q = a

\* C10 (as stated): unary -, abs, q * s, s * q and q / s keep the dimension
\* vector; * 1 and / 1 keep the magnitude; * 0 on either side gives magnitude
\* 0; -(-q) has the magnitude of q.
C10_ScalarOpsKeepDimension ==
  /\ r.op \in {"neg", "abs", "q*s", "s*q", "q/s"} =>
       /\ r.st = "ok" /\ r.q.dim = a.dim
       /\ (r.op \in {"q*s", "s*q", "q/s"} /\ b.value = One) =>
            r.q.value = a.value
       /\ (r.op \in {"q*s", "s*q"} /\ IsZero(b.value)) => IsZero(r.q.value)
  /\ r2.op = "neg" => r2.q = a

\* C10 (amended): unary -, abs, q * s, s * q and q / s keep the dimension
\* vector and change only the magnitude: - flips the sign, abs clears it,
\* * 1 and / 1 keep the magnitude, * 0 on either side gives magnitude 0 when
\* the magnitude of q is finite and NaN when it is infinite or NaN, and
\* -(-q) has the magnitude of q.
C10_ScalarOpsKeepDimensionFinite ==
  /\ r.op \in {"neg", "abs", "q*s", "s*q", "q/s"} =>
       /\ r.st = "ok"
       /\ \A s \in Slots : r.q.dim[s] = a.dim[s]
       /\ (r.op \in {"q*s", "s*q", "q/s"} /\ b.value = One) =>
            r.q.value = a.value
       /\ (r.op \in {"q*s", "s*q"} /\ IsZero(b.value)) =>
            IF IsFinite(a.value) THEN IsZero(r.q.value) ELSE IsNaN(r.q.value)
       /\ (r.op = "neg" /\ ~IsNaN(a.value)) =>
            /\ r.q.value.k = a.value.k /\ r.q.value.n = a.value.n
            /\ r.q.value.sg = 1 - a.value.sg
       /\ (r.op = "abs" /\ ~IsNaN(a.value)) =>
            /\ r.q.value.k = a.value.k /\ r.q.value.n = a.value.n
            /\ r.q.value.sg = 0
  /\ r2.op = "neg" => r2.q = a

C10_Witness ==
  /\ r.op = "s*q" /\ IsZero(b.value)
  /\ a = Quantity(FNeg(Two), Area)
  /\ r.q = Quantity(Fin(1, 0), Area)

(***************************************************************************)
(* C11.  No operator or math function changes an operand or a physical     *)
(* constant: in every step of every program the operands a and b, every    *)
(* unit literal already constructed, every result already returned and     *)
(* every object of namespace constants keep their magnitude and dimension, *)
(* and the constants are the ones constructed at process start.            *)
(***************************************************************************)
C11_OperandsAndConstantsKept ==
  [][/\ constants = ConstantObjects /\ constants' = ConstantObjects
     /\ a' = a /\ b' = b
     /\ (lit1 # NoLiteral => lit1' = lit1)
     /\ (lit2 # NoLiteral => lit2' = lit2)
     /\ (lit3 # NoLiteral => lit3' = lit3)
     /\ (r.op # "none" => r' = r)
     /\ (r2.op # "none" => r2' = r2)
     /\ (val.op # "none" => val' = val)]_vars

\* two operators were applied in turn to an operand that is not zero: the
\* first result differs from the operand, and the operand is as it was
C11_Witness ==
  /\ prog = "expr"
  /\ r.op = "neg" /\ r2.op = "neg"
  /\ ~FEq(r.q.value, a.value)
  /\ r2.q = a

(***************************************************************************)
(* C12.  For operands of one dimension with finite magnitudes the six      *)
(* relational operators agree with one three-way comparison: exactly one   *)
(* of <, ==, > is true; <= is (< or ==), >= is (> or ==), != is not ==;    *)
(* a == a, a <= a, a >= a; a <= b and b <= a give a == b; a < b and b < c  *)
(* give a < c, for every finite c of that dimension.                       *)
(***************************************************************************)
C12_RelationalOperatorsConsistent ==
  (r.op = "<=>" /\ r.st = "ok" /\ IsFinite(a.value) /\ IsFinite(b.value)) =>
    LET ab == r.cmp
        ba == Quantity_cmp(b, a)
        aa == Quantity_cmp(a, a)
    IN /\ Cardinality(ab \cap {"<", "==", ">"}) = 1
       /\ ("<=" \in ab) <=> ("<" \in ab \/ "==" \in ab)
       /\ (">=" \in ab) <=> (">" \in ab \/ "==" \in ab)
       /\ ("!=" \in ab) <=> ("==" \notin ab)
       /\ aa = {"==", "<=", ">="}
       /\ ("<=" \in ab /\ "<=" \in ba) => "==" \in ab
       /\ ("<" \in ab) <=> (">" \in ba)
       /\ \A v \in {d \in Doubles : IsFinite(d)} :
            LET c == Quantity(v, a.dim)
            IN ("<" \in ab /\ "<" \in Quantity_cmp(b, c))
                 => "<" \in Quantity_cmp(a, c)

\* a negative magnitude compared with a positive one that is not the largest
C12_Witness ==
  /\ r.op = "<=>" /\ r.st = "ok"
  /\ a.value.k = "fin" /\ a.value.sg = 1 /\ a.value.n > 0
  /\ b.value.k = "fin" /\ b.value.sg = 0 /\ b.value.n \in 1..(MaxFin - 1)
  /\ r.cmp = {"<", "<=", "!="}

(***************************************************************************)
(* C13.  Comparison follows IEEE-754: +0.0 and -0.0 are equal; when a      *)
(* magnitude is NaN only != is true, also of a quantity and itself; +inf   *)
(* is greater and -inf less than every finite magnitude.                   *)
(***************************************************************************)
C13_ComparisonIsIEEE ==
  (r.op = "<=>" /\ r.st = "ok") =>
    /\ (IsZero(a.value) /\ IsZero(b.value)) => r.cmp = {"==", "<=", ">="}
    /\ (IsNaN(a.value) \/ IsNaN(b.value)) => r.cmp = {"!="}
    /\ IsNaN(a.value) => Quantity_cmp(a, a) = {"!="}
    /\ (a.value = Inf(0) /\ IsFinite(b.value)) => r.cmp = {">", ">=", "!="}
    /\ (IsFinite(a.value) /\ b.value = Inf(0)) => r.cmp = {"<", "<=", "!="}
    /\ (a.value = Inf(1) /\ IsFinite(b.value)) => r.cmp = {"<", "<=", "!="}
    /\ (IsFinite(a.value) /\ b.value = Inf(1)) => r.cmp = {">", ">=", "!="}

\* a NaN quantity compared with a NaN quantity
C13_Witness ==
  /\ r.op = "<=>" /\ r.st = "ok"
  /\ IsNaN(a.value) /\ IsNaN(b.value)
  /\ r.cmp = {"!="}

(***************************************************************************)
(* C14.  Every unit literal constructs a Quantity of its documented        *)
(* dimension with magnitude raw * scale + offset, the offset being         *)
(* non-zero for _degC (v + 273.15) and _degF ((v - 32) * 5/9 + 273.15)     *)
(* only; 0 degC and 32 degF construct 273.15, 212 degF constructs 373.15;  *)
(* and the integer and the floating overload of a unit construct the same  *)
(* value.  The parts are stated one by one.                                *)
(***************************************************************************)
\* the literal of a unit of the documented table has the dimension of the
\* alias its category names
C14_DocumentedDimension ==
  lit1 # NoLiteral =>
    \A cat \in DOMAIN Documented :
      lit1.unit \in Documented[cat] => lit1.q.dim = Aliases[cat]

\* magnitude raw * scale + offset in double arithmetic, with the offset of
\* _degC and _degF and no offset for any other unit
C14_ScaleAndOffset ==
  lit1 # NoLiteral =>
    LET u == Entry(lit1.unit)
        d == IF lit1.form = "int" THEN WInt(UMantBits, lit1.raw.num)
             ELSE WNarrow(UMantBits, LongDoubleOf(ldbits, lit1.raw))
        got == lit1.q.value
    IN /\ lit1.unit \notin {"_degC", "_degF"} =>
            /\ got = WMul(UMantBits, d, ScaleOf(u))
            /\ lit1.raw.num = 0 => got.m = 0
       /\ lit1.unit = "_degC" =>
            /\ got = WAdd(UMantBits, d, Double(Lit273_15))
            /\ lit1.raw.num = 0 => got.m # 0
       /\ lit1.unit = "_degF" =>
            /\ got = WAdd(UMantBits,
                          WDiv(UMantBits,
                               WMul(UMantBits,
                                    WSub(UMantBits, d, WInt(UMantBits, 32)),
                                    WInt(UMantBits, 5)),
                               WInt(UMantBits, 9)),
                          Double(Lit273_15))
            /\ lit1.raw.num = 0 => got.m # 0

\* 0 degC = 32 degF = 273.15 and 212 degF = 373.15, in either overload
C14_TemperatureExamples ==
  /\ (lit1 # NoLiteral /\ lit1.unit = "_degC" /\ lit1.raw = Raw(0, 1)) =>
       lit1.q.value = Double(Lit273_15)
  /\ (lit1 # NoLiteral /\ lit1.unit = "_degF" /\ lit1.raw = Raw(32, 1)) =>
       lit1.q.value = Double(Lit273_15)
  /\ (lit1 # NoLiteral /\ lit1.unit = "_degF" /\ lit1.raw = Raw(212, 1)) =>
       lit1.q.value = Double(Lit373_15)

\* the other overload of the unit constructs the same Quantity from the
\* same number
C14_OverloadsAgree ==
  (lit1 # NoLiteral /\ lit1.raw.den = 1) =>
    \A form \in {"int", "flt"} :
      Literal(ldbits, lit1.unit, form, lit1.raw).q = lit1.q

\* the property as stated
C14_LiteralsAsDocumented ==
  /\ C14_DocumentedDimension
  /\ C14_ScaleAndOffset
  /\ C14_TemperatureExamples
  /\ C14_OverloadsAgree

\* the property without the agreement of the two overloads of _degF
C14_LiteralsButFahrenheitOverloads ==
  /\ C14_DocumentedDimension
  /\ lit1.unit # "_degF" => C14_ScaleAndOffset /\ C14_OverloadsAgree
  /\ (lit1.unit = "_degF" /\ lit1.form = "int") => C14_ScaleAndOffset
  /\ C14_TemperatureExamples

\* the two overloads of _degF disagree on a number
C14_Witness ==
  /\ lit1 # NoLiteral /\ lit1.unit = "_degF" /\ lit1.raw.den = 1
  /\ Literal(ldbits, "_degF", "int", lit1.raw).q
       # Literal(ldbits, "_degF", "flt", lit1.raw).q

(***************************************************************************)
(* C15.  Both x_degC - y_degC and x_degC + y_degC are accepted and are     *)
(* ordinary Temperatures; as stated, the difference has magnitude x - y    *)
(* and the sum magnitude x + y + 2 * 273.15.                               *)
(***************************************************************************)
\* the double a Celsius literal spells, before the offset is added
C15_Spelled(l) ==
  IF l.form = "int" THEN WInt(UMantBits, l.raw.num)
  ELSE WNarrow(UMantBits, LongDoubleOf(ldbits, l.raw))

\* val is the sum or the difference of two Celsius literals
C15_OfCelsius(op) ==
  /\ val.op = op
  /\ lit1.unit = "_degC" /\ lit2.unit = "_degC"

\* u and v of one format differ by at most n units in the last place of ref
C15_WithinUlps(u, v, n, ref) ==
  LET diff == WSub(UMantBits, u, v)
      bound == WRound(UMantBits, 0, n, ref.e)
  IN WSub(UMantBits, bound, [diff EXCEPT !.s = 0]).s = 0

\* the property as stated: the offsets cancel for every pair of literals
C15_CelsiusOffsetsCancel ==
  /\ C15_OfCelsius("-") =>
       /\ val.st = "ok" /\ val.q.dim = Aliases.Temperature
       /\ val.q.value = WSub(UMantBits, C15_Spelled(lit1), C15_Spelled(lit2))
  /\ C15_OfCelsius("+") =>
       /\ val.st = "ok" /\ val.q.dim = Aliases.Temperature
       /\ val.q.value =
            WAdd(UMantBits,
                 WAdd(UMantBits, C15_Spelled(lit1), C15_Spelled(lit2)),
                 WMul(UMantBits, WInt(UMantBits, 2), Double(Lit273_15)))

\* as amended: accepted, a Temperature like one built from a Kelvin
\* literal, 100 and 0 give 100.0 and 646.3; the difference is x - y when
\* neither addition of 273.15 rounds, and within two units in the last
\* place of the larger operand in general; the sum is within two units in
\* the last place of x + y + 2 * 273.15
C15_CelsiusDifferenceRounds ==
  (C15_OfCelsius("-") \/ C15_OfCelsius("+")) =>
    LET K == Double(Lit273_15)
        x == C15_Spelled(lit1)
        y == C15_Spelled(lit2)
        exact(l, d) == /\ WSub(UMantBits, l.q.value, K) = d
                       /\ WSub(UMantBits, l.q.value, d) = K
        larger == IF lit1.q.value.e >= lit2.q.value.e THEN lit1.q.value
                  ELSE lit2.q.value
        kelvin == Literal(ldbits, "_K", "int", Raw(100, 1)).q
    IN /\ val.st = "ok"
       /\ val.q.dim = kelvin.dim /\ DOMAIN val.q = DOMAIN kelvin
       /\ (lit1.raw = Raw(100, 1) /\ lit2.raw = Raw(0, 1)) =>
            IF val.op = "-" THEN val.q = kelvin
            ELSE val.q.value = Double(Lit646_3)
       /\ val.op = "-" =>
            /\ C15_WithinUlps(val.q.value, WSub(UMantBits, x, y), 2, larger)
            /\ (exact(lit1, x) /\ exact(lit2, y)) =>
                 val.q.value = WSub(UMantBits, x, y)
       /\ val.op = "+" =>
            C15_WithinUlps(val.q.value,
                           WAdd(UMantBits, WAdd(UMantBits, x, y),
                                WMul(UMantBits, WInt(UMantBits, 2), K)),
                           2, val.q.value)

\* 0.1_degC - 0_degC is not 0.1
C15_Witness ==
  /\ C15_OfCelsius("-")
  /\ lit1.raw = Raw(1, 10) /\ lit2.raw = Raw(0, 1)
  /\ val.st = "ok"
  /\ val.q.value # C15_Spelled(lit1)

(***************************************************************************)
(* C16.  The aliases agree with the dimension algebra: 0.5 * Mass *        *)
(* Velocity * Velocity is an Energy (875 for 70 kg and 10 m / 2 s);        *)
(* Length/Time = Velocity, Force*Length = Energy, Energy/Time = Power,     *)
(* Force/Area = Pressure, Voltage/Current = Resistance, Current*Time =     *)
(* Charge, Voltage*Current = Power and not Force, Resistance*Capacitance = *)
(* Time, sqrt(Inductance*Capacitance) = Time, Amount*MolarEntropy*         *)
(* Temperature = Energy.                                                   *)
(***************************************************************************)
\* the alias a literal operator returns
C16_TypeOf(l) == Entry(l.unit).type

C16_Products ==
  {<<"Force", "Length", "Energy">>, <<"Current", "Time", "Charge">>,
   <<"Voltage", "Current", "Power">>, <<"Resistance", "Capacitance", "Time">>}

C16_Quotients ==
  {<<"Length", "Time", "Velocity">>, <<"Energy", "Time", "Power">>,
   <<"Force", "Area", "Pressure">>, <<"Voltage", "Current", "Resistance">>}

C16_AliasesAgreeWithAlgebra ==
  /\ val.op = "*" =>
       /\ \A p \in C16_Products :
            (C16_TypeOf(lit1) = p[1] /\ C16_TypeOf(lit2) = p[2]) =>
              val.st = "ok" /\ val.q.dim = Aliases[p[3]]
       /\ (C16_TypeOf(lit1) = "Voltage" /\ C16_TypeOf(lit2) = "Current") =>
            val.q.dim # Aliases.Force
  /\ val.op = "/" =>
       \A p \in C16_Quotients :
         (C16_TypeOf(lit1) = p[1] /\ C16_TypeOf(lit2) = p[2]) =>
           val.st = "ok" /\ val.q.dim = Aliases[p[3]]
  /\ (/\ val.op = "sqrt(*)"
      /\ C16_TypeOf(lit1) = "Inductance"
      /\ C16_TypeOf(lit2) = "Capacitance") =>
       val.st = "ok" /\ val.q.dim = Aliases.Time
  /\ (/\ val.op = "n*R*T"
      /\ C16_TypeOf(lit1) = "Amount"
      /\ C16_TypeOf(lit2) = "Temperature") =>
       /\ constants.R.dim = Aliases.MolarEntropy
       /\ val.st = "ok" /\ val.q.dim = Aliases.Energy
  /\ (/\ val.op = "0.5*m*v*v"
      /\ C16_TypeOf(lit1) = "Mass"
      /\ C16_TypeOf(lit2) = "Length"
      /\ C16_TypeOf(lit3) = "Time") =>
       /\ WQuantity_div(lit2.q, lit3.q).dim = Aliases.Velocity
       /\ val.st = "ok" /\ val.q.dim = Aliases.Energy
       /\ (lit1.raw = Raw(70, 1) /\ lit2.raw = Raw(10, 1)
             /\ lit3.raw = Raw(2, 1)) =>
            val.q.value = WInt(UMantBits, 875)

\* the kinetic energy of 70 kg at 10 m / 2 s
C16_Witness ==
  /\ val.op = "0.5*m*v*v" /\ val.st = "ok"
  /\ lit1.unit = "_kg" /\ lit1.raw = Raw(70, 1)
  /\ lit2.unit = "_m" /\ lit2.raw = Raw(10, 1)
  /\ lit3.unit = "_s" /\ lit3.raw = Raw(2, 1)
  /\ val.q.value = WInt(UMantBits, 875)
  /\ val.q.dim = Aliases.Energy

(***************************************************************************)
(* C17.  os << q writes '<magnitude> [<dimension-string>]'; the dimension  *)
(* string lists the slots with a non-zero exponent in the order kg, m, s,  *)
(* A, K, mol, cd, joined by one middle dot with none leading or trailing,  *)
(* and is '1' when all seven exponents are zero.                           *)
(***************************************************************************)
\* the position of the first '[' of a text
C17_Open(text) ==
  CHOOSE i \in 1..Len(text) :
    text[i] = "[" /\ \A j \in 1..(i - 1) : text[j] # "["

\* the text between the first '[' and the last character
C17_DimText(text) == SubSeq(text, C17_Open(text) + 1, Len(text) - 1)

\* the pieces of a text between its middle dots
RECURSIVE C17_Split(_)
C17_Split(str) ==
  LET dots == {k \in 1..(Len(str) - 1) :
                 str[k] = "\\xc2" /\ str[k + 1] = "\\xb7"}
  IN IF dots = {} THEN <<str>>
     ELSE LET k == CHOOSE d \in dots : \A o \in dots : d <= o
          IN <<SubSeq(str, 1, k - 1)>>
               \o C17_Split(SubSeq(str, k + 2, Len(str)))

\* the slots of a dimension vector whose exponent is not zero, in order
C17_NonZeroSlots(D) ==
  LET used(i) == exps(D)[i] # 0
  IN SelectSeq(<<1, 2, 3, 4, 5, 6, 7>>, used)

\* a piece up to its '^', and from its '^' on
C17_Symbol(piece) ==
  IF \E k \in 1..Len(piece) : piece[k] = "^"
  THEN SubSeq(piece, 1, (CHOOSE k \in 1..Len(piece) : piece[k] = "^") - 1)
  ELSE piece

C17_Suffix(piece) ==
  SubSeq(piece, Len(C17_Symbol(piece)) + 1, Len(piece))

C17_SlotsInOrderOneSeparator ==
  r.op = "<<" =>
    LET open == C17_Open(os)
        pieces == C17_Split(C17_DimText(os))
        slots == C17_NonZeroSlots(a.dim)
    IN /\ \E i \in 1..Len(os) : os[i] = "["
       /\ SubSeq(os, 1, open - 2) \in ostream_double(a.value)
       /\ os[open - 1] = " " /\ os[Len(os)] = "]"
       /\ slots = <<>> => C17_DimText(os) = <<"1">>
       /\ slots # <<>> =>
            /\ Len(pieces) = Len(slots)
            /\ \A k \in 1..Len(slots) :
                 C17_Symbol(pieces[k]) = names[slots[k]]

\* a quantity with five slots in use and two zero slots to leave out
C17_Witness ==
  /\ r.op = "<<"
  /\ Len(C17_NonZeroSlots(a.dim)) = 5
  /\ a.dim.mass # 0 /\ a.dim.current = 0 /\ a.dim.luminosity = 0
  /\ Len(C17_Split(C17_DimText(os))) = 5

(***************************************************************************)
(* C18.  As stated: a slot whose exponent has magnitude 1 is printed as    *)
(* its symbol alone, any other non-zero exponent as symbol^exponent.       *)
(***************************************************************************)
\* the decimal spelling of an exponent
C18_Decimal(n) ==
  LET digit(d) == <<"0", "1", "2", "3", "4", "5", "6", "7", "8", "9">>[d + 1]
      m == IF n < 0 THEN 0 - n ELSE n
      digits == IF m < 10 THEN <<digit(m)>>
                ELSE <<digit(m \div 10), digit(m % 10)>>
  IN IF n < 0 THEN <<"-">> \o digits ELSE digits

C18_MagnitudeOneImplicit ==
  r.op = "<<" =>
    LET pieces == C17_Split(C17_DimText(os))
        slots == C17_NonZeroSlots(a.dim)
    IN \A k \in 1..Len(slots) :
         LET n == exps(a.dim)[slots[k]]
         IN C17_Suffix(pieces[k]) =
              IF n \in {1, -1} THEN <<>> ELSE <<"^">> \o C18_Decimal(n)

\* as amended: the symbol alone for exponent +1 only
C18_PlusOneImplicit ==
  r.op = "<<" =>
    LET pieces == C17_Split(C17_DimText(os))
        slots == C17_NonZeroSlots(a.dim)
    IN \A k \in 1..Len(slots) :
         LET n == exps(a.dim)[slots[k]]
         IN C17_Suffix(pieces[k]) =
              IF n = 1 THEN <<>> ELSE <<"^">> \o C18_Decimal(n)

\* a molar entropy written to the stream: kg with exponent +1 has no
\* suffix, K with exponent -1 has the suffix ^-1
C18_Witness ==
  /\ r.op = "<<"
  /\ a.dim = MolarEntropy
  /\ C17_Suffix(C17_Split(C17_DimText(os))[1]) = <<>>
  /\ C17_Suffix(C17_Split(C17_DimText(os))[4]) = <<"^", "-", "1">>

(***************************************************************************)
(* C19.  Only exponent +1 is left implicit: an exponent -1 is printed as   *)
(* '^-1' (Velocity is 'm.s^-1' with the middle dot), an exponent above 1   *)
(* as '^N' (Volume is 'm^3'), a negative one as '^-N' (acceleration is     *)
(* 'm.s^-2'), and no '^' is printed for a slot of exponent 1.              *)
(***************************************************************************)
C19_OnlyPlusOneImplicit ==
  r.op = "<<" =>
    LET text == C17_DimText(os)
        pieces == C17_Split(text)
        slots == C17_NonZeroSlots(a.dim)
        dot == <<"\\xc2", "\\xb7">>
    IN /\ a.dim = Velocity => text = <<"m">> \o dot \o <<"s", "^", "-", "1">>
       /\ a.dim = Volume => text = <<"m", "^", "3">>
       /\ a.dim = Acceleration =>
            text = <<"m">> \o dot \o <<"s", "^", "-", "2">>
       /\ \A k \in 1..Len(slots) :
            LET n == exps(a.dim)[slots[k]]
                suffix == C17_Suffix(pieces[k])
            IN /\ n = 1 => suffix = <<>>
               /\ n = -1 => suffix = <<"^", "-", "1">>
               /\ n > 1 => /\ Len(suffix) >= 2 /\ suffix[1] = "^"
                            /\ suffix[2] \notin {"-", "0"}
               /\ n < 0 => /\ Len(suffix) >= 3
                            /\ suffix[1] = "^" /\ suffix[2] = "-"
                            /\ suffix[3] # "0"

\* a velocity written to the stream
C19_Witness ==
  /\ r.op = "<<"
  /\ a.dim = Velocity
  /\ os = <<"2", " ", "[", "m", "\\xc2", "\\xb7", "s", "^", "-", "1", "]">>

(***************************************************************************)
(* C20.  After any sequence of assign operations, view<A, B, ...>(func)    *)
(* calls func for exactly the entities contained in every requested pool,  *)
(* passing that entity's own component of each pool by reference, so that  *)
(* what func writes is what get returns afterwards; func is not called     *)
(* when the first pool is empty or no entity is in every pool.             *)
(***************************************************************************)
\* entity is in the pool of T, if the Registry has one
C20_Has(T, entity) ==
  /\ ids[T] \in DOMAIN pools
  /\ contains(pools[ids[T]], entity)

\* the entities of every pool the view names
C20_InAll ==
  {entity \in 0..MaxEntity :
     \A i \in 1..Len(viewed.types) : C20_Has(viewed.types[i], entity)}

\* the number of calls of func for the entity of call k, from call k on
C20_CallsFrom(k) ==
  Cardinality({j \in k..Len(calls) : calls[j].entity = calls[k].entity})

C20_ViewCallsExactlyTheCommonEntities ==
  viewed # NoView =>
    /\ {calls[k].entity : k \in 1..Len(calls)} = C20_InAll
    /\ C20_InAll = {} => calls = <<>>
    /\ size(pools[ids[viewed.types[1]]]) = 0 => calls = <<>>
    /\ \A k \in 1..Len(calls) :
         /\ Len(calls[k].args) = Len(viewed.types)
         /\ \A i \in 1..Len(viewed.types) :
              LET now == get(pools[ids[viewed.types[i]]], calls[k].entity)
              IN IF viewed.func = "scale"
                 THEN now = calls[k].args[i] * (2 ^ C20_CallsFrom(k))
                 ELSE now = calls[k].args[i]

\* a view of two pools that share one entity of the three assigned, with a
\* func that wrote to its arguments
C20_Witness ==
  /\ viewed.types = <<"A", "B">> /\ viewed.func = "scale"
  /\ Len(calls) = 1
  /\ size(pools[ids["A"]]) = 2 /\ size(pools[ids["B"]]) = 1
  /\ get(pools[ids["A"]], calls[1].entity) = 2 * calls[1].args[1]
  /\ get(pools[ids["B"]], calls[1].entity) = 2 * calls[1].args[2]

(***************************************************************************)
(* C21.  After any sequence of assign operations with non-negative ids,    *)
(* contains(e) of a pool is true exactly for the entities e that an        *)
(* earlier assign(e, _) on that pool named: it is false for the ids never  *)
(* assigned, those below the largest assigned id (the holes the resize of  *)
(* sparse leaves) and those beyond the end of sparse, and true for the     *)
(* largest id assigned into an empty pool.  A pool that was never          *)
(* requested has had no assign.                                            *)
(***************************************************************************)
\* the entities the assign calls on the pool of T named
C21_AssignedTo(T) == {assigns[T][k].entity : k \in 1..Len(assigns[T])}

C21_ContainsIffAssigned ==
  (prog = "ecs" /\ ~ub) =>
    \A T \in Types :
      IF ids[T] \in DOMAIN pools
      THEN \A entity \in 0..(MaxEntity + 1) :
             contains(pools[ids[T]], entity) <=> entity \in C21_AssignedTo(T)
      ELSE assigns[T] = <<>>

\* the largest id assigned into an empty pool: it is contained, the holes
\* below it and the id beyond the end of sparse are not
C21_Witness ==
  /\ prog = "ecs" /\ ~ub
  /\ assigns["A"] = <<[entity |-> MaxEntity, comp |-> 10]>>
  /\ Len(pools[ids["A"]].sparse) = MaxEntity + 1
  /\ contains(pools[ids["A"]], MaxEntity)
  /\ \A entity \in 0..(MaxEntity - 1) : ~contains(pools[ids["A"]], entity)
  /\ ~contains(pools[ids["A"]], MaxEntity + 1)

(***************************************************************************)
(* C22.  After any sequence of assign operations with non-negative ids,    *)
(* size() of a pool is the number of assign calls made on it: 0 for a      *)
(* fresh pool, never less than the number of distinct entities e with      *)
(* contains(e), and equal to it exactly when no entity was assigned twice  *)
(* (n after assigning n different entities, however sparse their ids).     *)
(***************************************************************************)
\* the entities the pool contains
C22_Contained(pool) == {entity \in 0..MaxEntity : contains(pool, entity)}

\* an entity was named by two assign calls on the pool of T
C22_AssignedTwice(T) ==
  \E j, k \in 1..Len(assigns[T]) :
    j # k /\ assigns[T][j].entity = assigns[T][k].entity

C23_AssignsOf(T, entity) ==
  {k \in 1..Len(assigns[T]) : assigns[T][k].entity = entity}

\* the first of a non-empty set of positions
C23_First(S) == CHOOSE k \in S : \A j \in S : k <= j

\* the property as stated, before any view writes to the components
C23_SecondAssignKeepsFirstValue ==
  (prog = "ecs" /\ ~ub /\ viewed = NoView) =>
    \A T \in Types, entity \in 0..MaxEntity :
      Cardinality(C23_AssignsOf(T, entity)) >= 2 =>
        LET pool == pools[ids[T]]
        IN /\ Cardinality({k \in 1..Len(entities(pool)) :
                             entities(pool)[k] = entity})
                = Cardinality(C23_AssignsOf(T, entity))
           /\ get(pool, entity)
                = assigns[T][C23_First(C23_AssignsOf(T, entity))].comp

\* assign(0, 10) then assign(0, 20): two entries for entity 0, and get(0)
\* is the second value
C23_Witness ==
  /\ prog = "ecs" /\ ~ub /\ viewed = NoView
  /\ assigns["A"] = <<[entity |-> 0, comp |-> 10], [entity |-> 0, comp |-> 20]>>
  /\ entities(pools[ids["A"]]) = <<0, 0>>
  /\ pools[ids["A"]].dense = <<10, 20>>
  /\ get(pools[ids["A"]], 0) = 20

(***************************************************************************)
(* C24.  Any int is a valid entity id: for every integer e, negative ids   *)
(* included, and from any pool state, assign(e, c) and contains(e) access  *)
(* the sparse array only within its bounds, and after assign(e, c)         *)
(* contains(e) is true and get(e) returns c.                               *)
(***************************************************************************)
\* the property as stated: no access outside sparse has happened, and the
\* entity of the latest assign on each pool is contained with the component
\* of that assign (before any view writes to the components)
C24_AnyIntIsAnEntity ==
  prog = "ecs" =>
    /\ ~ub
    /\ viewed = NoView =>
         \A T \in Types :
           assigns[T] # <<>> =>
             LET latest == assigns[T][Len(assigns[T])]
             IN /\ contains(pools[ids[T]], latest.entity)
                /\ get(pools[ids[T]], latest.entity) = latest.comp

\* assign(-1, 10) on a pool that holds entity 0: sparse[-1] was written
C24_Witness ==
  /\ prog = "ecs" /\ ub
  /\ assigns["A"] = <<[entity |-> 0, comp |-> 10], [entity |-> -1, comp |-> 10]>>
  /\ pools[ids["A"]].sparse = <<0>>

(***************************************************************************)
(* C25.  Registry::view<A, B, ...>(func) iterates the entities() of the    *)
(* first listed pool, whatever the sizes of the requested pools: the loop  *)
(* makes size() of the first pool iterations, which is the fewest possible *)
(* only when no other listed pool is smaller.                              *)
(***************************************************************************)
\* size() of the pool of the type listed at position i of the view; a pool
\* the Registry does not hold yet is created empty by get_pool
C25_SizeOf(i) ==
  IF ids[viewed.types[i]] \in DOMAIN pools
  THEN size(pools[ids[viewed.types[i]]]) ELSE 0

C26_Example ==
  /\ C15_OfCelsius("-")
  /\ lit1.form = "int" /\ lit1.raw = Raw(37, 1)
  /\ lit2.form = "int" /\ lit2.raw = Raw(36, 1)

C27_MostRecent(T, entity) ==
  LET S == {k \in 1..Len(assigns[T]) : assigns[T][k].entity = entity}
  IN assigns[T][CHOOSE k \in S : \A j \in S : j <= k]

C28_Has(ps, is, T, entity) ==
  /\ is[T] \in DOMAIN ps
  /\ contains(ps[is[T]], entity)

\* size() of the pool of T in that Registry
C28_Size(ps, is, T) == IF is[T] \in DOMAIN ps THEN size(ps[is[T]]) ELSE 0

\* the step is assign(entity, _) on the pool of T
C28_IsAssign(T, entity) ==
  /\ Len(assigns'[T]) = Len(assigns[T]) + 1
  /\ assigns'[T][Len(assigns'[T])].entity = entity
  /\ \A U \in Types \ {T} : assigns'[U] = assigns[U]

C28_AssignChangesOneEntity ==
  [][\A T \in Types, entity \in 0..MaxEntity :
       (prog = "ecs" /\ ~ub' /\ C28_IsAssign(T, entity)) =>
         /\ \A U \in Types, other \in 0..(MaxEntity + 1) :
              /\ (U # T \/ other # entity) =>
                   /\ C28_Has(pools', ids', U, other)
                        <=> C28_Has(pools, ids, U, other)
                   /\ C28_Has(pools, ids, U, other) =>
                        get(pools'[ids'[U]], other) = get(pools[ids[U]], other)
              /\ C28_Has(pools, ids, U, other) => C28_Has(pools', ids', U, other)
         /\ \A U \in Types :
              C28_Size(pools', ids', U) =
                C28_Size(pools, ids, U) + (IF U = T THEN 1 ELSE 0)]_vars

\* assign(MaxEntity, 20) has resized the sparse array of a pool that held
\* entity 0, and another pool holds entity 1: both are as they were
C28_Witness ==
  /\ prog = "ecs" /\ ~ub /\ viewed = NoView
  /\ assigns["A"] = <<[entity |-> 0, comp |-> 10],
                      [entity |-> MaxEntity, comp |-> 20]>>
  /\ assigns["B"] = <<[entity |-> 1, comp |-> 10]>>
  /\ Len(pools[ids["A"]].sparse) = MaxEntity + 1
  /\ get(pools[ids["A"]], 0) = 10
  /\ get(pools[ids["B"]], 1) = 10

(***************************************************************************)
(* C29.  During one call of view<A, B, ...>(func), func is invoked once    *)
(* for every entry of the first listed pool whose entity is in every       *)
(* listed pool, in the order of the assign calls on the first pool: at     *)
(* most once per entity id, in the order of first assignment, when no      *)
(* entity was assigned to the first pool more than once, and once per      *)
(* assignment for an entity that was.                                      *)
(***************************************************************************)
\* the entities of the calls of func, in order
C29_Called == [k \in 1..Len(calls) |-> calls[k].entity]

\* the entities named by the assign calls on the first listed pool, in order
C29_AssignedToFirst ==
  [k \in 1..Len(assigns[viewed.types[1]]) |->
     assigns[viewed.types[1]][k].entity]

\* the same without the repetitions: the order of first assignment
RECURSIVE C29_FirstOnly(_)
C29_FirstOnly(s) ==
  IF s = <<>> THEN <<>>
  ELSE LET front == SubSeq(s, 1, Len(s) - 1)
       IN IF \E k \in 1..Len(front) : front[k] = s[Len(s)]
          THEN C29_FirstOnly(front)
          ELSE Append(C29_FirstOnly(front), s[Len(s)])

\* the entity is in every pool the view lists
C29_InEvery(entity) == entity \in C20_InAll

\* the property as stated: at most one call per entity, in the order of
\* first assignment to the first listed pool
C29_OncePerEntityInFirstAssignedOrder ==
  viewed # NoView =>
    /\ \A j, k \in 1..Len(calls) : j # k => calls[j].entity # calls[k].entity
    /\ C29_Called = SelectSeq(C29_FirstOnly(C29_AssignedToFirst), C29_InEvery)

C29_OncePerEntryInAssignedOrder ==
  viewed # NoView =>
    /\ C29_Called = SelectSeq(C29_AssignedToFirst, C29_InEvery)
    /\ (\A j, k \in 1..Len(C29_AssignedToFirst) :
          j # k => C29_AssignedToFirst[j] # C29_AssignedToFirst[k])
         => /\ \A j, k \in 1..Len(calls) :
                 j # k => calls[j].entity # calls[k].entity
            /\ C29_Called
                 = SelectSeq(C29_FirstOnly(C29_AssignedToFirst), C29_InEvery)
    /\ \A entity \in 0..MaxEntity :
         C29_InEvery(entity) =>
           Cardinality({k \in 1..Len(calls) : calls[k].entity = entity})
             = Cardinality({k \in 1..Len(C29_AssignedToFirst) :
                              C29_AssignedToFirst[k] = entity})

\* a view over a pool to which entity 1 was assigned, then entity 0, then
\* entity 1 again: func was called for 1, for 0, and for 1 again
C29_Witness ==
  /\ viewed.types = <<"A">>
  /\ C29_AssignedToFirst = <<1, 0, 1>>
  /\ C29_Called = <<1, 0, 1>>

(***************************************************************************)
(* C30.  TypeRegistry::get_id<T>() returns the same id on every call for   *)
(* a type T, and two types never have the same id, in whichever order the  *)
(* types are first requested; Registry::get_pool<T>() therefore creates    *)
(* the pool of T at most once and returns that pool, with every component  *)
(* assigned so far, on every later call.                                   *)
(***************************************************************************)
\* the ids taken in the state with the counter c and the ids is are the
\* numbers below c, one per type that has called get_id, and every pool ps
\* holds is the pool of such a type
C30_IdsDistinct(c, is, ps) ==
  /\ \A T \in Types : is[T] = -1 \/ (0 <= is[T] /\ is[T] < c)
  /\ \A T, U \in Types : (T # U /\ is[T] # -1) => is[T] # is[U]
  /\ c = Cardinality({T \in Types : is[T] # -1})
  /\ DOMAIN ps \subseteq {is[T] : T \in Types} \ {-1}

\* s is t or a beginning of t
C30_Prefix(s, t) == Len(s) <= Len(t) /\ SubSeq(t, 1, Len(s)) = s

C30_IdsAndPoolsStable ==
  [][(prog = "ecs" /\ ~ub') =>
       /\ C30_IdsDistinct(counter, ids, pools)
       /\ C30_IdsDistinct(counter', ids', pools')
       /\ \A T \in Types :
            /\ ids[T] # -1 => ids'[T] = ids[T]
            /\ ids[T] \in DOMAIN pools =>
                 /\ ids[T] \in DOMAIN pools'
                 /\ C30_Prefix(pools[ids[T]].entity_map,
                               pools'[ids[T]].entity_map)
                 /\ viewed'.func # "scale" =>
                      C30_Prefix(pools[ids[T]].dense, pools'[ids[T]].dense)
                 /\ size(pools'[ids[T]]) = Len(assigns'[T])]_vars

\* B was requested before A; after two assigns on the pool of A and one on
\* the pool of B a view has requested both pools again
C30_Witness ==
  /\ prog = "ecs" /\ ~ub
  /\ ids = [T \in Types |-> IF T = "B" THEN 0 ELSE 1] /\ counter = 2
  /\ viewed.types = <<"A", "B">> /\ viewed.func = "count"
  /\ pools[1].dense = <<10, 20>> /\ Len(assigns["A"]) = 2
  /\ pools[0].dense = <<20>> /\ Len(assigns["B"]) = 1

====
